---- MODULE Spec2Model ----
(***************************************************************************)
(* Path-Finding-Visualizer: the six search algorithms of lib/algorithms,   *)
(* the maze generators of lib/maze-generators.ts and the grid handlers of  *)
(* the PathfindingVisualizer component.                                    *)
(*                                                                         *)
(* A grid is a function grid[row][col] (0-based, as in the source) of node *)
(* records.  A reference to a node object is the pair <<row, col>> of its  *)
(* position; the null reference is NoNode.                                 *)
(***************************************************************************)
EXTENDS Integers, Sequences, FiniteSets, TLC

(* ------------------------------ bounds -------------------------------- *)
\* Largest number of cells of a grid (rows * cols <= MaxCells).
MaxCells == 8
\* Largest number of wall cells of an input grid.
MaxWalls == 1
\* Largest number of weight-5 cells of a weighted input grid.
MaxHeavy == 1
\* Largest number of cells of a grid that has walls and weight-5 cells.
MaxMixedCells == 6
\* Largest number of cells of a grid that is searched again and again.
MaxRerunCells == 4
\* Largest number of cells of a grid handed to generateMaze.
MaxMazeCells == 9
\* Largest number of loop iterations of a search that runs in steps.
MaxIterations == 64

(* ------------------------- program constants -------------------------- *)
\* Number.POSITIVE_INFINITY: larger than every finite distance of a bounded
\* grid (at most 5 per cell), compared and subtracted like the IEEE value.
POSITIVE_INFINITY == 1000000
\* weight of a plain cell and of a weighted cell
DefaultWeight == 1
HeavyWeight == 5

NoNode == <<>>

Algorithms == {"dijkstra", "astar", "bfs", "dfs", "greedy", "bidirectional"}

VARIABLES
    grid,        \* the GridNode[][] the handlers work on
    startNode,   \* {row, col} of the start cell, or NoNode
    endNode,     \* {row, col} of the end cell, or NoNode
    result,      \* the AlgorithmResult of the last search run, or NoResult
    pc,          \* position of the in-flight operation
    newGrid,     \* generateMaze: the working copy being built, or NoGrid
    local,       \* the local variables of the running generator or search
    mazeType,    \* generateMaze: the MazeType argument of the last call, or "none"
    hasOnUpdate, \* generateMaze: was an onUpdate callback passed?
    aliased,     \* has onUpdate handed newGrid's node objects to `grid`?
    timer,       \* did the last maze step end in `await new Promise(setTimeout)`?
    runEvents,     \* what the last search run did, in order (see Visit, OnGridUpdate, ...)
    stats,         \* the stats of the last search run, shown in the stats panel
    previousStats, \* the saved {algorithm, stats} entries of the comparison panel
    selectedAlgorithm, \* the Algorithm the select of the control panel shows
    iterations     \* loop iterations the search in flight has gone through

vars == <<grid, startNode, endNode, result, pc, newGrid, local, mazeType, hasOnUpdate, aliased, timer,
          runEvents, stats, previousStats, selectedAlgorithm, iterations>>
mazeVars == <<newGrid, local, mazeType, hasOnUpdate, aliased, timer>>
\* the component state that the searches and the maze generators never write
appVars == <<runEvents, stats, previousStats>>
\* the selection, and the progress of a search that runs in steps
runVars == <<selectedAlgorithm, iterations>>

NoStats == [none |-> TRUE]

NoGrid == <<>>
NoLocal == [none |-> TRUE]

NoResult == [algorithm |-> "none"]

(* ------------------------------ the grid ------------------------------ *)
GridRows(g) == Cardinality(DOMAIN g)
GridCols(g) == Cardinality(DOMAIN g[0])

\* all node references of a grid, row by row (for row of grid, for node of row)
RowMajor(g) ==
    [i \in 1..(GridRows(g) * GridCols(g)) |->
        <<(i - 1) \div GridCols(g), (i - 1) % GridCols(g)>>]

CellsOf(g) == {<<r, c>> : r \in DOMAIN g, c \in DOMAIN g[0]}

At(g, n) == g[n[1]][n[2]]

\* one freshly initialised node
FreshNode(row, col) ==
    [row |-> row, col |-> col, isStart |-> FALSE, isEnd |-> FALSE,
     isWall |-> FALSE, isVisited |-> FALSE, isPath |-> FALSE,
     distance |-> POSITIVE_INFINITY, heuristic |-> 0,
     weight |-> DefaultWeight, previousNode |-> NoNode]

initializeGrid(rows, cols) ==
    [row \in 0..(rows - 1) |-> [col \in 0..(cols - 1) |-> FreshNode(row, col)]]

Abs(x) == IF x < 0 THEN -x ELSE x

(* ------------------------------ helpers ------------------------------- *)
Directions == <<<<-1, 0>>, <<1, 0>>, <<0, -1>>, <<0, 1>>>>

RECURSIVE NeighborsFrom(_, _, _)
NeighborsFrom(g, n, i) ==
    IF i > Len(Directions) THEN <<>>
    ELSE LET newRow == n[1] + Directions[i][1]
             newCol == n[2] + Directions[i][2]
             rest == NeighborsFrom(g, n, i + 1)
         IN IF newRow >= 0 /\ newRow < GridRows(g) /\ newCol >= 0 /\ newCol < GridCols(g)
            THEN <<<<newRow, newCol>>>> \o rest
            ELSE rest

\* mutant: the `up` direction is missing from the list
getNeighborsNoUp(g, n) == NeighborsFrom(g, n, 2)

\* up, down, left, right neighbours inside the grid, in that order
getNeighbors(g, n) == NeighborsFrom(g, n, 1)

heuristic(a, b) == Abs(a[1] - b[1]) + Abs(a[2] - b[2])

\* Walks previousNode from endNode; `fuel` bounds the walk so that a cyclic
\* chain (which would never return in the source) yields the marker <<NoNode>>.
RECURSIVE PathWalk(_, _, _, _)
PathWalk(g, currentNode, path, fuel) ==
    IF currentNode = NoNode THEN path
    ELSE IF fuel = 0 THEN <<NoNode>>
    ELSE PathWalk(g, At(g, currentNode).previousNode, <<currentNode>> \o path, fuel - 1)

reconstructPathDropsStart(g, end) == Tail(PathWalk(g, end, <<>>, GridRows(g) * GridCols(g)))

reconstructPath(g, end) == PathWalk(g, end, <<>>, GridRows(g) * GridCols(g))

\* Array.prototype.sort with comparator key(a) - key(b): a stable sort.
RECURSIVE InsertByKey(_, _, _)
InsertByKey(sorted, x, key) ==
    IF sorted = <<>> THEN <<x>>
    ELSE IF key[x] < key[Head(sorted)] THEN <<x>> \o sorted
    ELSE <<Head(sorted)>> \o InsertByKey(Tail(sorted), x, key)

RECURSIVE StableSortFrom(_, _, _, _)
StableSortFrom(seq, i, acc, key) ==
    IF i > Len(seq) THEN acc
    ELSE StableSortFrom(seq, i + 1, InsertByKey(acc, seq[i], key), key)

StableSort(seq, key) == StableSortFrom(seq, 1, <<>>, key)

Includes(seq, x) == \E i \in 1..Len(seq) : seq[i] = x

\* What a run does that its caller can observe, in order: a node marked
\* isVisited and pushed on visitedNodes, onGridUpdate([...grid]), an awaited
\* setTimeout (with the node the loop is at), a node marked isPath.
Visit(n) == [op |-> "visit", node |-> n]
OnGridUpdate == [op |-> "onGridUpdate"]
Delay(ms, n) == [op |-> "delay", ms |-> ms, node |-> n]
PathMark(n) == [op |-> "isPath", node |-> n]
\* const endTime = performance.now(), the timestamp executionTime is computed from
EndTime == [op |-> "endTime"]

\* onGridUpdate([...grid]) and, unless the node is start or end, the await of
\* setTimeout(resolve, ms)
UpdateAndDelay(currentNode, start, end, ms) ==
    <<OnGridUpdate>> \o (IF currentNode # start /\ currentNode # end
                         THEN <<Delay(ms, currentNode)>> ELSE <<>>)

\* for (const node of path): isPath, onGridUpdate, 50 ms, start and end skipped
RECURSIVE RevealEvents(_, _, _, _)
RevealEvents(path, i, start, end) ==
    IF i > Len(path) THEN <<>>
    ELSE (IF path[i] # start /\ path[i] # end
          THEN <<PathMark(path[i]), OnGridUpdate, Delay("50", path[i])>>
          ELSE <<>>) \o RevealEvents(path, i + 1, start, end)

\* the events of the run so far, then those of the returned value
After(events, r) == [r EXCEPT !.events = events \o @]

\* mutant: the reveal marks start and end as well
RevealPathWithEnds(g, path, start, end) ==
    [row \in DOMAIN g |-> [col \in DOMAIN g[row] |->
        IF Includes(path, <<row, col>>)
        THEN [g[row][col] EXCEPT !.isPath = TRUE]
        ELSE g[row][col]]]

\* the path-reveal loop: isPath on every path node except start and end
RevealPath(g, path, start, end) ==
    [row \in DOMAIN g |-> [col \in DOMAIN g[row] |->
        IF Includes(path, <<row, col>>) /\ <<row, col>> # start /\ <<row, col>> # end
        THEN [g[row][col] EXCEPT !.isPath = TRUE]
        ELSE g[row][col]]]

\* the value returned on success, with the grid as the run leaves it
Found(name, g, path, visitedNodes, start, end) ==
    [grid |-> RevealPath(g, path, start, end),
     events |-> <<EndTime>> \o RevealEvents(path, 1, start, end),
     result |-> [algorithm |-> name, path |-> path, visitedNodes |-> visitedNodes,
                 stats |-> [pathFound |-> TRUE, pathLength |-> Len(path),
                            nodesVisited |-> Len(visitedNodes),
                            nodesInPath |-> Len(path)]]]

\* the value returned when the frontier empties
NotFound(name, g, visitedNodes) ==
    [grid |-> g,
     events |-> <<EndTime>>,
     result |-> [algorithm |-> name, path |-> <<>>, visitedNodes |-> visitedNodes,
                 stats |-> [pathFound |-> FALSE, pathLength |-> 0,
                            nodesVisited |-> Len(visitedNodes),
                            nodesInPath |-> 0]]]

(* ------------------------------ dijkstra ------------------------------ *)
\* mutant: the initialisation loop also sets node.weight = 1
dijkstraResetUnweights(g, start) ==
    [row \in DOMAIN g |-> [col \in DOMAIN g[row] |->
        [g[row][col] EXCEPT !.distance = IF <<row, col>> = start THEN 0 ELSE POSITIVE_INFINITY,
                            !.previousNode = NoNode,
                            !.isVisited = FALSE,
                            !.isPath = FALSE,
                            !.weight = DefaultWeight]]]

\* the initialisation loop and startNode.distance = 0
dijkstraReset(g, start) ==
    [row \in DOMAIN g |-> [col \in DOMAIN g[row] |->
        [g[row][col] EXCEPT !.distance = IF <<row, col>> = start THEN 0 ELSE POSITIVE_INFINITY,
                            !.previousNode = NoNode,
                            !.isVisited = FALSE,
                            !.isPath = FALSE]]]

\* mutant: every step costs 1, the neighbour's weight is ignored
dijkstraTentativeUnit(g, currentNode, neighbor) ==
    At(g, currentNode).distance + 1

dijkstraTentative(g, currentNode, neighbor) ==
    At(g, currentNode).distance + At(g, neighbor).weight

RECURSIVE dijkstraRelax(_, _, _, _)
dijkstraRelax(g, currentNode, neighbors, i) ==
    IF i > Len(neighbors) THEN g
    ELSE LET neighbor == neighbors[i]
             tentativeDistance == dijkstraTentative(g, currentNode, neighbor)
         IN IF ~At(g, neighbor).isVisited /\ ~At(g, neighbor).isWall
               /\ tentativeDistance < At(g, neighbor).distance
            THEN dijkstraRelax(
                   [g EXCEPT ![neighbor[1]][neighbor[2]].distance = tentativeDistance,
                             ![neighbor[1]][neighbor[2]].previousNode = currentNode],
                   currentNode, neighbors, i + 1)
            ELSE dijkstraRelax(g, currentNode, neighbors, i + 1)

\* mutant: the loop stops on walls only, not on unreached nodes
dijkstraStopsOnWallOnly(g, currentNode) ==
    At(g, currentNode).isWall

\* if (currentNode.isWall || currentNode.distance === Infinity) break
dijkstraStops(g, currentNode) ==
    At(g, currentNode).isWall \/ At(g, currentNode).distance = POSITIVE_INFINITY

RECURSIVE dijkstraLoop(_, _, _, _, _, _)
dijkstraLoop(g, unvisitedNodes, visitedNodes, start, end, events) ==
    IF unvisitedNodes = <<>> THEN After(events, NotFound("dijkstra", g, visitedNodes))
    ELSE LET sorted == StableSort(unvisitedNodes, [n \in CellsOf(g) |-> At(g, n).distance])
             currentNode == Head(sorted)
         IN IF dijkstraStops(g, currentNode)
            THEN After(events, NotFound("dijkstra", g, visitedNodes))
            ELSE LET g1 == [g EXCEPT ![currentNode[1]][currentNode[2]].isVisited = TRUE]
                     v1 == Append(visitedNodes, currentNode)
                     e1 == events \o <<Visit(currentNode)>>
                               \o UpdateAndDelay(currentNode, start, end, "101 - animationSpeed")
                 IN IF currentNode = end
                    THEN After(e1, Found("dijkstra", g1, reconstructPath(g1, end), v1, start, end))
                    ELSE dijkstraLoop(
                           dijkstraRelax(g1, currentNode, getNeighbors(g1, currentNode), 1),
                           Tail(sorted), v1, start, end, e1)

dijkstra(g, start, end) ==
    LET g0 == dijkstraReset(g, start)
    IN dijkstraLoop(g0, RowMajor(g0), <<>>, start, end, <<>>)

(* ------------------------------- astar -------------------------------- *)
astarReset(g, start, end) ==
    [row \in DOMAIN g |-> [col \in DOMAIN g[row] |->
        [g[row][col] EXCEPT !.distance = IF <<row, col>> = start THEN 0 ELSE POSITIVE_INFINITY,
                            !.heuristic = IF <<row, col>> = start THEN heuristic(start, end) ELSE 0,
                            !.previousNode = NoNode,
                            !.isVisited = FALSE,
                            !.isPath = FALSE]]]

\* does the neighbour take the new distance and parent?
astarImproves(isInOpenSet, tentativeDistance, oldDistance) ==
    ~isInOpenSet \/ tentativeDistance < oldDistance

\* s = [g, openSet]: the for loop over the neighbours of currentNode
RECURSIVE astarRelax(_, _, _, _, _)
astarRelax(s, currentNode, end, neighbors, i) ==
    IF i > Len(neighbors) THEN s
    ELSE LET neighbor == neighbors[i]
             g == s.g
         IN IF At(g, neighbor).isVisited \/ At(g, neighbor).isWall
            THEN astarRelax(s, currentNode, end, neighbors, i + 1)
            ELSE LET tentativeDistance == At(g, currentNode).distance + At(g, neighbor).weight
                     isInOpenSet == Includes(s.openSet, neighbor)
                 IN IF astarImproves(isInOpenSet, tentativeDistance, At(g, neighbor).distance)
                    THEN astarRelax(
                           [g |-> [g EXCEPT ![neighbor[1]][neighbor[2]].distance = tentativeDistance,
                                            ![neighbor[1]][neighbor[2]].heuristic = heuristic(neighbor, end),
                                            ![neighbor[1]][neighbor[2]].previousNode = currentNode],
                            openSet |-> IF isInOpenSet THEN s.openSet
                                        ELSE Append(s.openSet, neighbor)],
                           currentNode, end, neighbors, i + 1)
                    ELSE astarRelax(s, currentNode, end, neighbors, i + 1)

\* mutant: openSet ordered by the heuristic alone
astarPriorityHeuristicOnly(g, n) == At(g, n).heuristic

\* the sort key of openSet: a.distance + a.heuristic
astarPriority(g, n) == At(g, n).distance + At(g, n).heuristic

RECURSIVE astarLoop(_, _, _, _, _, _)
astarLoop(g, openSet, visitedNodes, start, end, events) ==
    IF openSet = <<>> THEN After(events, NotFound("astar", g, visitedNodes))
    ELSE LET sorted == StableSort(openSet,
                 [n \in CellsOf(g) |-> astarPriority(g, n)])
             currentNode == Head(sorted)
         IN IF At(g, currentNode).isWall
            THEN astarLoop(g, Tail(sorted), visitedNodes, start, end, events)
            ELSE LET g1 == [g EXCEPT ![currentNode[1]][currentNode[2]].isVisited = TRUE]
                     v1 == Append(visitedNodes, currentNode)
                     e1 == events \o <<Visit(currentNode)>>
                               \o UpdateAndDelay(currentNode, start, end, "101 - animationSpeed")
                 IN IF currentNode = end
                    THEN After(e1, Found("astar", g1, reconstructPath(g1, end), v1, start, end))
                    ELSE LET s1 == astarRelax([g |-> g1, openSet |-> Tail(sorted)],
                                              currentNode, end, getNeighbors(g1, currentNode), 1)
                         IN astarLoop(s1.g, s1.openSet, v1, start, end, e1)

astar(g, start, end) ==
    astarLoop(astarReset(g, start, end), <<start>>, <<>>, start, end, <<>>)

(* -------------------------------- bfs --------------------------------- *)
\* mutant: the reset loop leaves isVisited as the last run set it
bfsResetKeepsVisited(g, start) ==
    [row \in DOMAIN g |-> [col \in DOMAIN g[row] |->
        [g[row][col] EXCEPT !.distance = IF <<row, col>> = start THEN 0 ELSE POSITIVE_INFINITY,
                            !.previousNode = NoNode,
                            !.isVisited = (@ \/ <<row, col>> = start),
                            !.isPath = FALSE]]]

bfsReset(g, start) ==
    [row \in DOMAIN g |-> [col \in DOMAIN g[row] |->
        [g[row][col] EXCEPT !.distance = IF <<row, col>> = start THEN 0 ELSE POSITIVE_INFINITY,
                            !.previousNode = NoNode,
                            !.isVisited = (<<row, col>> = start),
                            !.isPath = FALSE]]]

\* mutant: a heavy neighbour is passed over
RECURSIVE bfsExpandSkipsHeavy(_, _, _, _)
bfsExpandSkipsHeavy(s, currentNode, neighbors, i) ==
    IF i > Len(neighbors) THEN s
    ELSE LET neighbor == neighbors[i]
             g == s.g
         IN IF ~At(g, neighbor).isVisited /\ ~At(g, neighbor).isWall
               /\ At(g, neighbor).weight = DefaultWeight
            THEN bfsExpandSkipsHeavy(
                   [g |-> [g EXCEPT ![neighbor[1]][neighbor[2]].isVisited = TRUE,
                                    ![neighbor[1]][neighbor[2]].distance = At(g, currentNode).distance + 1,
                                    ![neighbor[1]][neighbor[2]].previousNode = currentNode],
                    queue |-> Append(s.queue, neighbor),
                    visitedNodes |-> Append(s.visitedNodes, neighbor),
                    events |-> Append(s.events, Visit(neighbor))],
                   currentNode, neighbors, i + 1)
            ELSE bfsExpandSkipsHeavy(s, currentNode, neighbors, i + 1)

\* s = [g, queue, visitedNodes, events]: the for loop over the neighbours of currentNode
RECURSIVE bfsExpand(_, _, _, _)
bfsExpand(s, currentNode, neighbors, i) ==
    IF i > Len(neighbors) THEN s
    ELSE LET neighbor == neighbors[i]
             g == s.g
         IN IF ~At(g, neighbor).isVisited /\ ~At(g, neighbor).isWall
            THEN bfsExpand(
                   [g |-> [g EXCEPT ![neighbor[1]][neighbor[2]].isVisited = TRUE,
                                    ![neighbor[1]][neighbor[2]].distance = At(g, currentNode).distance + 1,
                                    ![neighbor[1]][neighbor[2]].previousNode = currentNode],
                    queue |-> Append(s.queue, neighbor),
                    visitedNodes |-> Append(s.visitedNodes, neighbor),
                    events |-> Append(s.events, Visit(neighbor))],
                   currentNode, neighbors, i + 1)
            ELSE bfsExpand(s, currentNode, neighbors, i + 1)

\* mutant: queue.pop() instead of queue.shift()
RECURSIVE bfsLoopPop(_, _, _)
bfsLoopPop(s, start, end) ==
    IF s.queue = <<>> THEN After(s.events, NotFound("bfs", s.g, s.visitedNodes))
    ELSE LET currentNode == s.queue[Len(s.queue)]
             e1 == s.events \o UpdateAndDelay(currentNode, start, end, "101 - animationSpeed")
         IN IF currentNode = end
            THEN After(e1, Found("bfs", s.g, reconstructPath(s.g, end), s.visitedNodes, start, end))
            ELSE bfsLoopPop(bfsExpand([s EXCEPT !.queue = SubSeq(s.queue, 1, Len(s.queue) - 1),
                                                !.events = e1],
                                      currentNode, getNeighbors(s.g, currentNode), 1),
                            start, end)

RECURSIVE bfsLoop(_, _, _)
bfsLoop(s, start, end) ==
    IF s.queue = <<>> THEN After(s.events, NotFound("bfs", s.g, s.visitedNodes))
    ELSE LET currentNode == Head(s.queue)
             e1 == s.events \o UpdateAndDelay(currentNode, start, end, "101 - animationSpeed")
         IN IF currentNode = end
            THEN After(e1, Found("bfs", s.g, reconstructPath(s.g, end), s.visitedNodes, start, end))
            ELSE bfsLoop(bfsExpand([s EXCEPT !.queue = Tail(s.queue), !.events = e1], currentNode,
                                   getNeighbors(s.g, currentNode), 1),
                         start, end)

bfs(g, start, end) ==
    bfsLoop([g |-> bfsReset(g, start), queue |-> <<start>>, visitedNodes |-> <<start>>,
             events |-> <<Visit(start)>>],
            start, end)

(* -------------------------------- dfs --------------------------------- *)
dfsReset(g) ==
    [row \in DOMAIN g |-> [col \in DOMAIN g[row] |->
        [g[row][col] EXCEPT !.isVisited = FALSE,
                            !.isPath = FALSE,
                            !.previousNode = NoNode]]]

\* s = [g, visitedNodes, found, events]
RECURSIVE dfsRecursive(_, _, _)
RECURSIVE dfsNeighbors(_, _, _, _, _)
dfsRecursive(s, currentNode, end) ==
    IF At(s.g, currentNode).isWall \/ At(s.g, currentNode).isVisited
    THEN [s EXCEPT !.found = FALSE]
    ELSE LET s1 == [g |-> [s.g EXCEPT ![currentNode[1]][currentNode[2]].isVisited = TRUE],
                    visitedNodes |-> Append(s.visitedNodes, currentNode),
                    found |-> FALSE,
                    events |-> s.events \o <<Visit(currentNode), OnGridUpdate>>
                                \o (IF currentNode # end
                                    THEN <<Delay("101 - animationSpeed", currentNode)>>
                                    ELSE <<>>)]
         IN IF currentNode = end THEN [s1 EXCEPT !.found = TRUE]
            ELSE dfsNeighbors(s1, currentNode, end, getNeighbors(s1.g, currentNode), 1)

dfsNeighbors(s, currentNode, end, neighbors, i) ==
    IF i > Len(neighbors) THEN [s EXCEPT !.found = FALSE]
    ELSE LET neighbor == neighbors[i]
         IN IF ~At(s.g, neighbor).isVisited /\ ~At(s.g, neighbor).isWall
            THEN LET r == dfsRecursive(
                            [s EXCEPT !.g[neighbor[1]][neighbor[2]].previousNode = currentNode],
                            neighbor, end)
                 IN IF r.found THEN r
                    ELSE dfsNeighbors(r, currentNode, end, neighbors, i + 1)
            ELSE dfsNeighbors(s, currentNode, end, neighbors, i + 1)

dfs(g, start, end) ==
    LET r == dfsRecursive([g |-> dfsReset(g), visitedNodes |-> <<>>, found |-> FALSE,
                           events |-> <<>>],
                          start, end)
    IN IF r.found
       THEN After(r.events, Found("dfs", r.g, reconstructPath(r.g, end), r.visitedNodes, start, end))
       ELSE After(r.events, NotFound("dfs", r.g, r.visitedNodes))

(* ------------------------------- greedy ------------------------------- *)
greedyReset(g, start, end) ==
    [row \in DOMAIN g |-> [col \in DOMAIN g[row] |->
        [g[row][col] EXCEPT !.heuristic = IF <<row, col>> = start THEN heuristic(start, end) ELSE 0,
                            !.previousNode = NoNode,
                            !.isVisited = FALSE,
                            !.isPath = FALSE]]]

\* s = [g, openSet]
RECURSIVE greedyExpand(_, _, _, _, _)
greedyExpand(s, currentNode, end, neighbors, i) ==
    IF i > Len(neighbors) THEN s
    ELSE LET neighbor == neighbors[i]
             g == s.g
         IN IF ~At(g, neighbor).isVisited /\ ~At(g, neighbor).isWall
               /\ ~Includes(s.openSet, neighbor)
            THEN greedyExpand(
                   [g |-> [g EXCEPT ![neighbor[1]][neighbor[2]].heuristic = heuristic(neighbor, end),
                                    ![neighbor[1]][neighbor[2]].previousNode = currentNode],
                    openSet |-> Append(s.openSet, neighbor)],
                   currentNode, end, neighbors, i + 1)
            ELSE greedyExpand(s, currentNode, end, neighbors, i + 1)

RECURSIVE greedyLoop(_, _, _, _, _, _)
greedyLoop(g, openSet, visitedNodes, start, end, events) ==
    IF openSet = <<>> THEN After(events, NotFound("greedy", g, visitedNodes))
    ELSE LET sorted == StableSort(openSet, [n \in CellsOf(g) |-> At(g, n).heuristic])
             currentNode == Head(sorted)
         IN IF At(g, currentNode).isWall \/ At(g, currentNode).isVisited
            THEN greedyLoop(g, Tail(sorted), visitedNodes, start, end, events)
            ELSE LET g1 == [g EXCEPT ![currentNode[1]][currentNode[2]].isVisited = TRUE]
                     v1 == Append(visitedNodes, currentNode)
                     e1 == events \o <<Visit(currentNode)>>
                               \o UpdateAndDelay(currentNode, start, end, "101 - animationSpeed")
                 IN IF currentNode = end
                    THEN After(e1, Found("greedy", g1, reconstructPath(g1, end), v1, start, end))
                    ELSE LET s1 == greedyExpand([g |-> g1, openSet |-> Tail(sorted)],
                                                currentNode, end, getNeighbors(g1, currentNode), 1)
                         IN greedyLoop(s1.g, s1.openSet, v1, start, end, e1)

greedy(g, start, end) ==
    greedyLoop(greedyReset(g, start, end), <<start>>, <<>>, start, end, <<>>)

(* ---------------------------- bidirectional --------------------------- *)
\* the template string `${row}-${col}`
NodeKey(n) == ToString(n[1]) \o "-" \o ToString(n[2])

EmptyMap == [k \in {} |-> NoNode]
MapSet(m, k, v) == [x \in DOMAIN m \cup {k} |-> IF x = k THEN v ELSE m[x]]
\* Map.get: undefined (NoNode) for a missing key
MapGet(m, k) == IF k \in DOMAIN m THEN m[k] ELSE NoNode

bidirectionalReset(g) ==
    [row \in DOMAIN g |-> [col \in DOMAIN g[row] |->
        [g[row][col] EXCEPT !.isVisited = FALSE,
                            !.isPath = FALSE,
                            !.previousNode = NoNode]]]

\* mutant: the start side enqueues wall neighbours too
RECURSIVE bidiStartExpandThroughWalls(_, _, _, _)
bidiStartExpandThroughWalls(s, currentNode, neighbors, i) ==
    IF i > Len(neighbors) THEN s
    ELSE LET neighbor == neighbors[i]
             neighborKey == NodeKey(neighbor)
         IN IF neighborKey \notin s.startVisited
            THEN bidiStartExpandThroughWalls(
                   [s EXCEPT !.startVisited = @ \cup {neighborKey},
                             !.startParents = MapSet(@, neighborKey, currentNode),
                             !.startQueue = Append(@, neighbor)],
                   currentNode, neighbors, i + 1)
            ELSE bidiStartExpandThroughWalls(s, currentNode, neighbors, i + 1)

\* the for loop over the neighbours on the start side
RECURSIVE bidiStartExpand(_, _, _, _)
bidiStartExpand(s, currentNode, neighbors, i) ==
    IF i > Len(neighbors) THEN s
    ELSE LET neighbor == neighbors[i]
             neighborKey == NodeKey(neighbor)
         IN IF ~At(s.g, neighbor).isWall /\ neighborKey \notin s.startVisited
            THEN bidiStartExpand(
                   [s EXCEPT !.startVisited = @ \cup {neighborKey},
                             !.startParents = MapSet(@, neighborKey, currentNode),
                             !.startQueue = Append(@, neighbor)],
                   currentNode, neighbors, i + 1)
            ELSE bidiStartExpand(s, currentNode, neighbors, i + 1)

\* the for loop over the neighbours on the end side
RECURSIVE bidiEndExpand(_, _, _, _)
bidiEndExpand(s, currentNode, neighbors, i) ==
    IF i > Len(neighbors) THEN s
    ELSE LET neighbor == neighbors[i]
             neighborKey == NodeKey(neighbor)
         IN IF ~At(s.g, neighbor).isWall /\ neighborKey \notin s.endVisited
            THEN bidiEndExpand(
                   [s EXCEPT !.endVisited = @ \cup {neighborKey},
                             !.endParents = MapSet(@, neighborKey, currentNode),
                             !.endQueue = Append(@, neighbor)],
                   currentNode, neighbors, i + 1)
            ELSE bidiEndExpand(s, currentNode, neighbors, i + 1)

\* mutant: startQueue.pop() instead of startQueue.shift()
bidiStartHalfPop(s) ==
    LET currentNode == s.startQueue[Len(s.startQueue)]
        s1 == [s EXCEPT !.startQueue = SubSeq(@, 1, Len(@) - 1),
                        !.g[currentNode[1]][currentNode[2]].isVisited = TRUE,
                        !.visitedNodes = Append(@, currentNode),
                        !.events = @ \o <<Visit(currentNode)>>
                                     \o UpdateAndDelay(currentNode, s.startNode, s.endNode,
                                                       "(101 - animationSpeed) / 2")]
    IN IF NodeKey(currentNode) \in s1.endVisited
       THEN [s1 EXCEPT !.meetingPoint = currentNode]
       ELSE bidiStartExpand(s1, currentNode, getNeighbors(s1.g, currentNode), 1)

\* if (startQueue.length > 0) { ... }
bidiStartHalf(s) ==
    LET currentNode == Head(s.startQueue)
        s1 == [s EXCEPT !.startQueue = Tail(@),
                        !.g[currentNode[1]][currentNode[2]].isVisited = TRUE,
                        !.visitedNodes = Append(@, currentNode),
                        !.events = @ \o <<Visit(currentNode)>>
                                     \o UpdateAndDelay(currentNode, s.startNode, s.endNode,
                                                       "(101 - animationSpeed) / 2")]
    IN IF NodeKey(currentNode) \in s1.endVisited
       THEN [s1 EXCEPT !.meetingPoint = currentNode]
       ELSE bidiStartExpand(s1, currentNode, getNeighbors(s1.g, currentNode), 1)

\* if (endQueue.length > 0) { ... }
bidiEndHalf(s) ==
    LET currentNode == Head(s.endQueue)
        s1 == [s EXCEPT !.endQueue = Tail(@),
                        !.g[currentNode[1]][currentNode[2]].isVisited = TRUE,
                        !.visitedNodes = IF Includes(@, currentNode) THEN @
                                         ELSE Append(@, currentNode),
                        !.events = @ \o (IF Includes(s.visitedNodes, currentNode) THEN <<>>
                                         ELSE <<Visit(currentNode)>>)
                                     \o UpdateAndDelay(currentNode, s.startNode, s.endNode,
                                                       "(101 - animationSpeed) / 2")]
    IN IF NodeKey(currentNode) \in s1.startVisited
       THEN [s1 EXCEPT !.meetingPoint = currentNode]
       ELSE bidiEndExpand(s1, currentNode, getNeighbors(s1.g, currentNode), 1)

RECURSIVE bidiLoop(_)
bidiLoop(s) ==
    IF s.startQueue = <<>> /\ s.endQueue = <<>> THEN s
    ELSE LET s1 == IF s.startQueue # <<>> THEN bidiStartHalf(s) ELSE s
         IN IF s1.meetingPoint # NoNode THEN s1
            ELSE LET s2 == IF s1.endQueue # <<>> THEN bidiEndHalf(s1) ELSE s1
                 IN IF s2.meetingPoint # NoNode THEN s2 ELSE bidiLoop(s2)

\* while (current) { startPath.unshift(current); current = startParents.get(key) }
RECURSIVE StartChain(_, _, _, _)
StartChain(startParents, current, startPath, fuel) ==
    IF current = NoNode THEN startPath
    ELSE IF fuel = 0 THEN <<NoNode>>
    ELSE StartChain(startParents, MapGet(startParents, NodeKey(current)),
                    <<current>> \o startPath, fuel - 1)

\* while (current) { endPath.push(current); current = endParents.get(key) }
RECURSIVE EndChain(_, _, _, _)
EndChain(endParents, current, endPath, fuel) ==
    IF current = NoNode THEN endPath
    ELSE IF fuel = 0 THEN <<NoNode>>
    ELSE EndChain(endParents, MapGet(endParents, NodeKey(current)),
                  Append(endPath, current), fuel - 1)

\* mutant: the end-side chain starts at the meeting point itself
reconstructBidirectionalPathTwice(meetingPoint, startParents, endParents, fuel) ==
    StartChain(startParents, meetingPoint, <<>>, fuel)
        \o EndChain(endParents, meetingPoint, <<>>, fuel)

reconstructBidirectionalPath(meetingPoint, startParents, endParents, fuel) ==
    StartChain(startParents, meetingPoint, <<>>, fuel)
        \o EndChain(endParents, MapGet(endParents, NodeKey(meetingPoint)), <<>>, fuel)

bidirectional(g, start, end) ==
    LET s == bidiLoop([g |-> bidirectionalReset(g), visitedNodes |-> <<>>,
                       startQueue |-> <<start>>, endQueue |-> <<end>>,
                       startVisited |-> {NodeKey(start)}, endVisited |-> {NodeKey(end)},
                       startParents |-> EmptyMap, endParents |-> EmptyMap,
                       meetingPoint |-> NoNode,
                       startNode |-> start, endNode |-> end, events |-> <<>>])
    IN IF s.meetingPoint # NoNode
       THEN After(s.events,
                  Found("bidirectional", s.g,
                        reconstructBidirectionalPath(s.meetingPoint, s.startParents, s.endParents,
                                                     GridRows(g) * GridCols(g)),
                        s.visitedNodes, start, end))
       ELSE After(s.events, NotFound("bidirectional", s.g, s.visitedNodes))

\* the registry `algorithms`
algorithms(name, g, start, end) ==
    CASE name = "dijkstra" -> dijkstra(g, start, end)
      [] name = "astar" -> astar(g, start, end)
      [] name = "bfs" -> bfs(g, start, end)
      [] name = "dfs" -> dfs(g, start, end)
      [] name = "greedy" -> greedy(g, start, end)
      [] name = "bidirectional" -> bidirectional(g, start, end)

(* ------------------- the loops, one iteration at a time ---------------- *)
\* s.returned while the function has not returned
NoReturn == <<>>

\* one pass through the body of while (unvisitedNodes.length > 0), or the
\* return that follows the loop
dijkstraIteration(s) ==
    IF s.unvisitedNodes = <<>>
    THEN [s EXCEPT !.returned = After(s.events, NotFound("dijkstra", s.g, s.visitedNodes))]
    ELSE LET sorted == StableSort(s.unvisitedNodes, [n \in CellsOf(s.g) |-> At(s.g, n).distance])
             currentNode == Head(sorted)
         IN IF dijkstraStops(s.g, currentNode)
            THEN [s EXCEPT !.returned = After(s.events, NotFound("dijkstra", s.g, s.visitedNodes))]
            ELSE LET g1 == [s.g EXCEPT ![currentNode[1]][currentNode[2]].isVisited = TRUE]
                     v1 == Append(s.visitedNodes, currentNode)
                     e1 == s.events \o <<Visit(currentNode)>>
                               \o UpdateAndDelay(currentNode, s.startNode, s.endNode,
                                                 "101 - animationSpeed")
                 IN IF currentNode = s.endNode
                    THEN [s EXCEPT !.returned =
                            After(e1, Found("dijkstra", g1, reconstructPath(g1, s.endNode), v1,
                                            s.startNode, s.endNode))]
                    ELSE [s EXCEPT !.g = dijkstraRelax(g1, currentNode,
                                                       getNeighbors(g1, currentNode), 1),
                                   !.unvisitedNodes = Tail(sorted),
                                   !.visitedNodes = v1,
                                   !.events = e1]

\* one pass through the body of astar's while (openSet.length > 0)
astarIteration(s) ==
    IF s.openSet = <<>>
    THEN [s EXCEPT !.returned = After(s.events, NotFound("astar", s.g, s.visitedNodes))]
    ELSE LET sorted == StableSort(s.openSet, [n \in CellsOf(s.g) |-> astarPriority(s.g, n)])
             currentNode == Head(sorted)
         IN IF At(s.g, currentNode).isWall
            THEN [s EXCEPT !.openSet = Tail(sorted)]
            ELSE LET g1 == [s.g EXCEPT ![currentNode[1]][currentNode[2]].isVisited = TRUE]
                     v1 == Append(s.visitedNodes, currentNode)
                     e1 == s.events \o <<Visit(currentNode)>>
                               \o UpdateAndDelay(currentNode, s.startNode, s.endNode,
                                                 "101 - animationSpeed")
                 IN IF currentNode = s.endNode
                    THEN [s EXCEPT !.returned =
                            After(e1, Found("astar", g1, reconstructPath(g1, s.endNode), v1,
                                            s.startNode, s.endNode))]
                    ELSE LET s1 == astarRelax([g |-> g1, openSet |-> Tail(sorted)], currentNode,
                                              s.endNode, getNeighbors(g1, currentNode), 1)
                         IN [s EXCEPT !.g = s1.g, !.openSet = s1.openSet,
                                      !.visitedNodes = v1, !.events = e1]

\* mutant: the dequeued node stays at the head of the queue
bfsIterationNoShift(s) ==
    IF s.queue = <<>>
    THEN [s EXCEPT !.returned = After(s.events, NotFound("bfs", s.g, s.visitedNodes))]
    ELSE LET currentNode == Head(s.queue)
             e1 == s.events \o UpdateAndDelay(currentNode, s.startNode, s.endNode,
                                              "101 - animationSpeed")
         IN IF currentNode = s.endNode
            THEN [s EXCEPT !.returned =
                    After(e1, Found("bfs", s.g, reconstructPath(s.g, s.endNode), s.visitedNodes,
                                    s.startNode, s.endNode))]
            ELSE LET s1 == bfsExpand([g |-> s.g, queue |-> s.queue,
                                      visitedNodes |-> s.visitedNodes, events |-> e1],
                                     currentNode, getNeighbors(s.g, currentNode), 1)
                 IN [s EXCEPT !.g = s1.g, !.queue = s1.queue,
                              !.visitedNodes = s1.visitedNodes, !.events = s1.events]

\* one pass through the body of bfs's while (queue.length > 0)
bfsIteration(s) ==
    IF s.queue = <<>>
    THEN [s EXCEPT !.returned = After(s.events, NotFound("bfs", s.g, s.visitedNodes))]
    ELSE LET currentNode == Head(s.queue)
             e1 == s.events \o UpdateAndDelay(currentNode, s.startNode, s.endNode,
                                              "101 - animationSpeed")
         IN IF currentNode = s.endNode
            THEN [s EXCEPT !.returned =
                    After(e1, Found("bfs", s.g, reconstructPath(s.g, s.endNode), s.visitedNodes,
                                    s.startNode, s.endNode))]
            ELSE LET s1 == bfsExpand([g |-> s.g, queue |-> Tail(s.queue),
                                      visitedNodes |-> s.visitedNodes, events |-> e1],
                                     currentNode, getNeighbors(s.g, currentNode), 1)
                 IN [s EXCEPT !.g = s1.g, !.queue = s1.queue,
                              !.visitedNodes = s1.visitedNodes, !.events = s1.events]

\* one pass through the body of greedy's while (openSet.length > 0)
greedyIteration(s) ==
    IF s.openSet = <<>>
    THEN [s EXCEPT !.returned = After(s.events, NotFound("greedy", s.g, s.visitedNodes))]
    ELSE LET sorted == StableSort(s.openSet, [n \in CellsOf(s.g) |-> At(s.g, n).heuristic])
             currentNode == Head(sorted)
         IN IF At(s.g, currentNode).isWall \/ At(s.g, currentNode).isVisited
            THEN [s EXCEPT !.openSet = Tail(sorted)]
            ELSE LET g1 == [s.g EXCEPT ![currentNode[1]][currentNode[2]].isVisited = TRUE]
                     v1 == Append(s.visitedNodes, currentNode)
                     e1 == s.events \o <<Visit(currentNode)>>
                               \o UpdateAndDelay(currentNode, s.startNode, s.endNode,
                                                 "101 - animationSpeed")
                 IN IF currentNode = s.endNode
                    THEN [s EXCEPT !.returned =
                            After(e1, Found("greedy", g1, reconstructPath(g1, s.endNode), v1,
                                            s.startNode, s.endNode))]
                    ELSE LET s1 == greedyExpand([g |-> g1, openSet |-> Tail(sorted)], currentNode,
                                                s.endNode, getNeighbors(g1, currentNode), 1)
                         IN [s EXCEPT !.g = s1.g, !.openSet = s1.openSet,
                                      !.visitedNodes = v1, !.events = e1]

\* one pass through the body of while (startQueue.length > 0 ||
\* endQueue.length > 0), or what follows the loop once it is left
bidirectionalIteration(s) ==
    IF s.meetingPoint # NoNode
    THEN [s EXCEPT !.returned =
            After(s.events,
                  Found("bidirectional", s.g,
                        reconstructBidirectionalPath(s.meetingPoint, s.startParents, s.endParents,
                                                     GridRows(s.g) * GridCols(s.g)),
                        s.visitedNodes, s.startNode, s.endNode))]
    ELSE IF s.startQueue = <<>> /\ s.endQueue = <<>>
    THEN [s EXCEPT !.returned = After(s.events, NotFound("bidirectional", s.g, s.visitedNodes))]
    ELSE LET s1 == IF s.startQueue # <<>> THEN bidiStartHalf(s) ELSE s
         IN IF s1.meetingPoint # NoNode THEN s1
            ELSE IF s1.endQueue # <<>> THEN bidiEndHalf(s1) ELSE s1

\* dfsRecursive with its call stack spelled out: a frame is the call's
\* currentNode and the index i of the neighbour its for loop is at (0 before
\* the body is entered).  One step enters the top call, or takes one turn of
\* its for loop, or returns from it.
dfsIteration(s) ==
    LET top == s.stack[Len(s.stack)]
        currentNode == top.currentNode
        rest == SubSeq(s.stack, 1, Len(s.stack) - 1)
        \* return false: back in the caller, or out of dfs when there is none
        returnFalse == IF rest = <<>>
                       THEN [s EXCEPT !.stack = rest,
                                      !.returned = After(s.events,
                                                         NotFound("dfs", s.g, s.visitedNodes))]
                       ELSE [s EXCEPT !.stack = rest]
        neighbors == getNeighbors(s.g, currentNode)
    IN IF top.i = 0
       THEN IF At(s.g, currentNode).isWall \/ At(s.g, currentNode).isVisited
            THEN returnFalse
            ELSE LET g1 == [s.g EXCEPT ![currentNode[1]][currentNode[2]].isVisited = TRUE]
                     v1 == Append(s.visitedNodes, currentNode)
                     e1 == s.events \o <<Visit(currentNode), OnGridUpdate>>
                               \o (IF currentNode # s.endNode
                                   THEN <<Delay("101 - animationSpeed", currentNode)>>
                                   ELSE <<>>)
                 IN IF currentNode = s.endNode
                    \* return true, and so does every caller
                    THEN [s EXCEPT !.stack = <<>>,
                                   !.returned =
                                     After(e1, Found("dfs", g1, reconstructPath(g1, s.endNode), v1,
                                                     s.startNode, s.endNode))]
                    ELSE [s EXCEPT !.g = g1, !.visitedNodes = v1, !.events = e1,
                                   !.stack = Append(rest, [top EXCEPT !.i = 1])]
       ELSE IF top.i > Len(neighbors)
       THEN returnFalse
       ELSE LET neighbor == neighbors[top.i]
                next == Append(rest, [top EXCEPT !.i = @ + 1])
            IN IF ~At(s.g, neighbor).isVisited /\ ~At(s.g, neighbor).isWall
               THEN [s EXCEPT !.g[neighbor[1]][neighbor[2]].previousNode = currentNode,
                              !.stack = Append(next, [currentNode |-> neighbor, i |-> 0])]
               ELSE [s EXCEPT !.stack = next]

\* the function's locals when its loop is first reached
searchStart(name, g, start, end) ==
    LET common == [algorithm |-> name, startNode |-> start, endNode |-> end,
                   returned |-> NoReturn]
        with(fields) == [f \in DOMAIN common \cup DOMAIN fields |->
                           IF f \in DOMAIN fields THEN fields[f] ELSE common[f]]
    IN CASE name = "dijkstra" ->
              with([g |-> dijkstraReset(g, start),
                    unvisitedNodes |-> RowMajor(dijkstraReset(g, start)),
                    visitedNodes |-> <<>>, events |-> <<>>])
         [] name = "astar" ->
              with([g |-> astarReset(g, start, end), openSet |-> <<start>>,
                    visitedNodes |-> <<>>, events |-> <<>>])
         [] name = "bfs" ->
              with([g |-> bfsReset(g, start), queue |-> <<start>>,
                    visitedNodes |-> <<start>>, events |-> <<Visit(start)>>])
         [] name = "dfs" ->
              with([g |-> dfsReset(g), visitedNodes |-> <<>>, events |-> <<>>,
                    stack |-> <<[currentNode |-> start, i |-> 0]>>])
         [] name = "greedy" ->
              with([g |-> greedyReset(g, start, end), openSet |-> <<start>>,
                    visitedNodes |-> <<>>, events |-> <<>>])
         [] name = "bidirectional" ->
              with([g |-> bidirectionalReset(g), visitedNodes |-> <<>>,
                    startQueue |-> <<start>>, endQueue |-> <<end>>,
                    startVisited |-> {NodeKey(start)}, endVisited |-> {NodeKey(end)},
                    startParents |-> EmptyMap, endParents |-> EmptyMap,
                    meetingPoint |-> NoNode, events |-> <<>>])

\* the next iteration of the algorithm in flight
searchIteration(s) ==
    CASE s.algorithm = "dijkstra" -> dijkstraIteration(s)
      [] s.algorithm = "astar" -> astarIteration(s)
      [] s.algorithm = "bfs" -> bfsIteration(s)
      [] s.algorithm = "dfs" -> dfsIteration(s)
      [] s.algorithm = "greedy" -> greedyIteration(s)
      [] s.algorithm = "bidirectional" -> bidirectionalIteration(s)

(* --------------------------- drawn grids ------------------------------ *)
\* gridSize.rows x gridSize.cols with at most maxCells cells
Shapes(maxCells) == {sh \in (1..maxCells) \X (1..maxCells) : sh[1] * sh[2] <= maxCells}
\* the shapes with a choice of routes: at least two rows and two columns
WideShapes(maxCells) == {sh \in Shapes(maxCells) : sh[1] >= 2 /\ sh[2] >= 2}

CellsOfShape(sh) == (0..(sh[1] - 1)) \X (0..(sh[2] - 1))

\* the grid the click handlers produce from initializeGrid: walls, weighted
\* cells, the start and the end cell; transient fields still fresh
DrawnGrid(sh, walls, heavy, start, end) ==
    [row \in 0..(sh[1] - 1) |-> [col \in 0..(sh[2] - 1) |->
        [FreshNode(row, col) EXCEPT !.isWall = (<<row, col>> \in walls),
                                    !.weight = IF <<row, col>> \in heavy THEN HeavyWeight
                                               ELSE DefaultWeight,
                                    !.isStart = (<<row, col>> = start),
                                    !.isEnd = (<<row, col>> = end)]]]

InitDrawn(shapes, maxWalls, maxHeavy) ==
    \E sh \in shapes :
      \E walls \in {w \in SUBSET CellsOfShape(sh) : Cardinality(w) <= maxWalls} :
        \E heavy \in {h \in SUBSET (CellsOfShape(sh) \ walls) : Cardinality(h) <= maxHeavy} :
          \E start \in CellsOfShape(sh) \ walls :
            \E end \in CellsOfShape(sh) \ walls :
              /\ grid = DrawnGrid(sh, walls, heavy, start, end)
              /\ startNode = start
              /\ endNode = end
              /\ result = NoResult
              /\ pc = "idle"
              /\ newGrid = NoGrid
              /\ local = NoLocal
              /\ mazeType = "none"
              /\ hasOnUpdate = FALSE
              /\ aliased = FALSE
              /\ timer = FALSE
              /\ runEvents = <<>> /\ stats = NoStats /\ previousStats = <<>>
              /\ selectedAlgorithm = "dijkstra" /\ iterations = 0

(* ------------------------------ actions ------------------------------- *)
\* isRunning: a search or a maze generation is in flight
isRunning == pc \notin {"idle", "ran", "cleared", "generated"}

\* runAlgorithm with selectedAlgorithm = name.  The search works on the node
\* objects of the `grid` the handler closed over, as earlier runs left them:
\* the copy its clearGrid() call hands to setGrid is replaced by the first
\* onGridUpdate([...grid]), which every search issues for its first node.
runAlgorithm(name) ==
    /\ startNode # NoNode
    /\ endNode # NoNode
    /\ LET r == algorithms(name, grid, startNode, endNode)
       IN /\ grid' = r.grid
          /\ result' = r.result
          /\ runEvents' = r.events
    /\ stats' = result'.stats
    /\ pc' = "ran"
    /\ UNCHANGED <<startNode, endNode>>
    /\ UNCHANGED mazeVars
    /\ UNCHANGED runVars
    /\ UNCHANGED previousStats

\* runAlgorithm up to the first iteration of the algorithm's loop
runAlgorithmStart(name) ==
    /\ ~isRunning
    /\ startNode # NoNode
    /\ endNode # NoNode
    /\ local' = searchStart(name, grid, startNode, endNode)
    /\ grid' = local'.g
    /\ pc' = "searching"
    /\ result' = NoResult
    /\ runEvents' = <<>>
    /\ stats' = NoStats
    /\ iterations' = 0
    /\ UNCHANGED <<startNode, endNode, newGrid, mazeType, hasOnUpdate, aliased, timer,
                   previousStats, selectedAlgorithm>>

\* the timer the search in flight awaits fires and the search resumes: what
\* every step of the search does to `iterations`
Resume ==
    /\ pc = "searching"
    /\ iterations < MaxIterations
    /\ iterations' = iterations + 1

\* the algorithm in flight resumes for one iteration; when it returns,
\* runAlgorithm goes on with setStats(result.stats) and setIsRunning(false)
runAlgorithmStep ==
    /\ Resume
    /\ \E s \in {searchIteration(local)} :
         IF s.returned # NoReturn
         THEN /\ grid' = s.returned.grid
              /\ result' = s.returned.result
              /\ runEvents' = s.returned.events
              /\ stats' = s.returned.result.stats
              /\ local' = NoLocal
              /\ pc' = "ran"
         ELSE /\ local' = s
              /\ grid' = s.g
              /\ UNCHANGED <<result, runEvents, stats, pc>>
    /\ UNCHANGED <<startNode, endNode, newGrid, mazeType, hasOnUpdate, aliased, timer,
                   previousStats, selectedAlgorithm>>

(* ---- unweighted search: one run of any algorithm on a drawn grid ----- *)
InitSearch == InitDrawn(Shapes(MaxCells), MaxWalls, 0)
NextSearch == \E name \in Algorithms : pc = "idle" /\ runAlgorithm(name)
SpecSearch == InitSearch /\ [][NextSearch]_vars

(* ---- a run in steps: one algorithm, iteration by iteration ---------- *)
\* the event loop fires every timer a search awaits, and the search resumes:
\* weak fairness of Resume, which in this specification only runAlgorithmStep
\* can take and which is enabled whenever runAlgorithmStep is
NextSteps ==
    \/ \E name \in Algorithms : pc = "idle" /\ runAlgorithmStart(name)
    \/ runAlgorithmStep
SpecSteps == InitSearch /\ [][NextSteps]_vars /\ WF_iterations(Resume)

(* ---- scenario grids: one run of bfs on a square grid without walls ---- *)
MaxScenarioSize == 5

InitScenario ==
    \E size \in 1..MaxScenarioSize :
      \E start \in CellsOfShape(<<size, size>>), end \in CellsOfShape(<<size, size>>) :
        /\ grid = DrawnGrid(<<size, size>>, {}, {}, start, end)
        /\ startNode = start
        /\ endNode = end
        /\ result = NoResult
        /\ pc = "idle"
        /\ newGrid = NoGrid
        /\ local = NoLocal
        /\ mazeType = "none"
        /\ hasOnUpdate = FALSE
        /\ aliased = FALSE
        /\ timer = FALSE
        /\ runEvents = <<>> /\ stats = NoStats /\ previousStats = <<>>
        /\ selectedAlgorithm = "dijkstra" /\ iterations = 0
NextScenario == pc = "idle" /\ runAlgorithm("bfs")
SpecScenario == InitScenario /\ [][NextScenario]_vars

(* ---- weighted search: one run of dijkstra or astar on a weighted grid -- *)
\* a weighted grid without walls, or a smaller one with walls
InitWeighted ==
    \/ InitDrawn(WideShapes(MaxCells), 0, MaxHeavy)
    \/ InitDrawn(WideShapes(MaxMixedCells), MaxWalls, MaxHeavy)
NextWeighted == \E name \in {"dijkstra", "astar"} : pc = "idle" /\ runAlgorithm(name)
SpecWeighted == InitWeighted /\ [][NextWeighted]_vars

\* one run of bfs on the same weighted grids
NextWeightedBfs == pc = "idle" /\ runAlgorithm("bfs")
SpecWeightedBfs == InitWeighted /\ [][NextWeightedBfs]_vars

(* ---- repeated runs: searches and clearGrid in any order on one grid ---- *)
\* the grid clearGrid hands to setGrid
clearedGrid(g) ==
    [row \in DOMAIN g |-> [col \in DOMAIN g[row] |->
        [g[row][col] EXCEPT !.isVisited = FALSE,
                            !.isPath = FALSE,
                            !.distance = POSITIVE_INFINITY,
                            !.heuristic = 0,
                            !.previousNode = NoNode]]]

\* clearGrid: setGrid(newGrid); setStats(null)
clearGrid ==
    /\ grid' = clearedGrid(grid)
    /\ result' = NoResult
    /\ runEvents' = <<>>
    /\ stats' = NoStats
    /\ pc' = "cleared"
    /\ UNCHANGED <<startNode, endNode>>
    /\ UNCHANGED mazeVars
    /\ UNCHANGED runVars
    /\ UNCHANGED previousStats

\* an unweighted grid with walls, or a weighted grid with a choice of routes
InitRerun ==
    \/ InitDrawn(Shapes(MaxRerunCells), MaxWalls, 0)
    \/ InitDrawn(WideShapes(MaxRerunCells), 0, MaxHeavy)
NextRerun ==
    \/ \E name \in Algorithms : runAlgorithm(name)
    \/ clearGrid
SpecRerun == InitRerun /\ [][NextRerun]_vars

(* ------------------------- the click handlers -------------------------- *)
Modes == {"wall", "start", "end", "weight"}

\* the grid after handleNodeClick(row, col) in the given mode
clickedGridKeepsWall(g, mode, isWeightedMode, start, end, row, col) ==
    LET node == g[row][col]
    IN CASE mode = "start" ->
              [(IF start # NoNode THEN [g EXCEPT ![start[1]][start[2]].isStart = FALSE] ELSE g)
                  EXCEPT ![row][col].isStart = TRUE]
         [] mode = "end" ->
              [(IF end # NoNode THEN [g EXCEPT ![end[1]][end[2]].isEnd = FALSE] ELSE g)
                  EXCEPT ![row][col].isEnd = TRUE, ![row][col].isWall = FALSE]
         [] mode = "wall" ->
              IF ~node.isStart /\ ~node.isEnd
              THEN [g EXCEPT ![row][col].isWall = ~node.isWall]
              ELSE g
         [] mode = "weight" /\ isWeightedMode ->
              IF ~node.isStart /\ ~node.isEnd /\ ~node.isWall
              THEN [g EXCEPT ![row][col].weight =
                        IF node.weight = DefaultWeight THEN HeavyWeight ELSE DefaultWeight]
              ELSE g
         [] OTHER -> g

clickedGrid(g, mode, isWeightedMode, start, end, row, col) ==
    LET node == g[row][col]
    IN CASE mode = "start" ->
              [(IF start # NoNode THEN [g EXCEPT ![start[1]][start[2]].isStart = FALSE] ELSE g)
                  EXCEPT ![row][col].isStart = TRUE, ![row][col].isWall = FALSE]
         [] mode = "end" ->
              [(IF end # NoNode THEN [g EXCEPT ![end[1]][end[2]].isEnd = FALSE] ELSE g)
                  EXCEPT ![row][col].isEnd = TRUE, ![row][col].isWall = FALSE]
         [] mode = "wall" ->
              IF ~node.isStart /\ ~node.isEnd
              THEN [g EXCEPT ![row][col].isWall = ~node.isWall]
              ELSE g
         [] mode = "weight" /\ isWeightedMode ->
              IF ~node.isStart /\ ~node.isEnd /\ ~node.isWall
              THEN [g EXCEPT ![row][col].weight =
                        IF node.weight = DefaultWeight THEN HeavyWeight ELSE DefaultWeight]
              ELSE g
         [] OTHER -> g

\* mutant: the handler without `if (isRunning) return`
handleNodeClickWhileRunning(mode, isWeightedMode, row, col) ==
    /\ grid' = clickedGrid(grid, mode, isWeightedMode, startNode, endNode, row, col)
    /\ startNode' = IF mode = "start" THEN <<row, col>> ELSE startNode
    /\ endNode' = IF mode = "end" THEN <<row, col>> ELSE endNode
    /\ UNCHANGED <<result, pc>>
    /\ UNCHANGED mazeVars
    /\ UNCHANGED runVars
    /\ UNCHANGED appVars

\* handleNodeClick(row, col) with the drawing mode and the weighted switch as set
handleNodeClick(mode, isWeightedMode, row, col) ==
    /\ ~isRunning
    /\ grid' = clickedGrid(grid, mode, isWeightedMode, startNode, endNode, row, col)
    /\ startNode' = IF mode = "start" THEN <<row, col>> ELSE startNode
    /\ endNode' = IF mode = "end" THEN <<row, col>> ELSE endNode
    /\ UNCHANGED <<result, pc>>
    /\ UNCHANGED mazeVars
    /\ UNCHANGED runVars
    /\ UNCHANGED appVars

\* setGridSize(size) and the effect that follows it: initializeGrid on the new size
resize(size) ==
    /\ ~isRunning
    /\ grid' = initializeGrid(size, size)
    /\ startNode' = NoNode
    /\ endNode' = NoNode
    /\ result' = NoResult
    /\ stats' = NoStats
    /\ pc' = "idle"
    /\ UNCHANGED mazeVars
    /\ UNCHANGED runVars
    /\ UNCHANGED <<runEvents, previousStats>>

\* resetGrid: initializeGrid(); setPreviousStats([])
resetGrid ==
    /\ ~isRunning
    /\ grid' = initializeGrid(GridRows(grid), GridRows(grid))
    /\ startNode' = NoNode
    /\ endNode' = NoNode
    /\ result' = NoResult
    /\ stats' = NoStats
    /\ previousStats' = <<>>
    /\ pc' = "idle"
    /\ UNCHANGED runEvents
    /\ UNCHANGED mazeVars
    /\ UNCHANGED runVars

(* ========================== maze generators =========================== *)
MazeTypes == {"random", "recursive", "prim", "kruskal", "binary", "sidewinder"}

\* mutant: the copy without `isWall: false`
mazeCopyKeepsWalls(g) ==
    [row \in DOMAIN g |-> [col \in DOMAIN g[row] |->
        [g[row][col] EXCEPT !.isVisited = FALSE,
                            !.isPath = FALSE,
                            !.distance = POSITIVE_INFINITY,
                            !.previousNode = NoNode]]]

\* generateMaze: the working copy newGrid (a fresh object for every node)
mazeCopy(g) ==
    [row \in DOMAIN g |-> [col \in DOMAIN g[row] |->
        [g[row][col] EXCEPT !.isWall = FALSE,
                            !.isVisited = FALSE,
                            !.isPath = FALSE,
                            !.distance = POSITIVE_INFINITY,
                            !.previousNode = NoNode]]]

\* mutant: the fill loop walls every cell, the start and end cells included
fillWithWallsUnguarded(g) ==
    [row \in DOMAIN g |-> [col \in DOMAIN g[row] |->
        [g[row][col] EXCEPT !.isWall = TRUE]]]

\* the "Fill with walls" loops
fillWithWalls(g) ==
    [row \in DOMAIN g |-> [col \in DOMAIN g[row] |->
        IF ~g[row][col].isStart /\ ~g[row][col].isEnd
        THEN [g[row][col] EXCEPT !.isWall = TRUE]
        ELSE g[row][col]]]

\* if (!node.isStart && !node.isEnd) node.isWall = false
openCell(g, row, col) ==
    IF ~g[row][col].isStart /\ ~g[row][col].isEnd
    THEN [g EXCEPT ![row][col].isWall = FALSE]
    ELSE g

\* if (!node.isStart && !node.isEnd && Math.random() < 0.35) node.isWall = true
randomWall(g, row, col, coin) ==
    IF ~g[row][col].isStart /\ ~g[row][col].isEnd /\ coin
    THEN [g EXCEPT ![row][col].isWall = TRUE]
    ELSE g

\* onUpdate([...grid]) hands the node objects of newGrid to the caller, whose
\* setGrid stores them: from then on `grid` shows every later write
Deliver(ng, called) ==
    /\ timer' = called
    /\ aliased' = (aliased \/ called)
    /\ grid' = IF aliased \/ called THEN ng ELSE grid

\* `onUpdate && Math.random() < p`: the outcomes of the draw
MaybeCalledUnguarded == BOOLEAN

MaybeCalled == IF hasOnUpdate THEN BOOLEAN ELSE {FALSE}

(* ---- divide ---- *)
Frame(x1, y1, x2, y2, horizontal) ==
    [x1 |-> x1, y1 |-> y1, x2 |-> x2, y2 |-> y2, horizontal |-> horizontal]

\* for (x = x1; x <= x2; x++) if (x !== hole && !start && !end) grid[y][x].isWall = false
divideRow(g, y, x1, x2, hole) ==
    [row \in DOMAIN g |-> [col \in DOMAIN g[row] |->
        IF row = y /\ col >= x1 /\ col <= x2 /\ col # hole
           /\ ~g[row][col].isStart /\ ~g[row][col].isEnd
        THEN [g[row][col] EXCEPT !.isWall = FALSE]
        ELSE g[row][col]]]

\* for (y = y1; y <= y2; y++) if (y !== hole && !start && !end) grid[y][x].isWall = false
divideCol(g, x, y1, y2, hole) ==
    [row \in DOMAIN g |-> [col \in DOMAIN g[row] |->
        IF col = x /\ row >= y1 /\ row <= y2 /\ row # hole
           /\ ~g[row][col].isStart /\ ~g[row][col].isEnd
        THEN [g[row][col] EXCEPT !.isWall = FALSE]
        ELSE g[row][col]]]

(* ---- prim ---- *)
Directions2 == <<<<-2, 0>>, <<2, 0>>, <<0, -2>>, <<0, 2>>>>

RECURSIVE addWallsFrom(_, _, _, _, _)
addWallsFrom(g, row, col, walls, i) ==
    IF i > Len(Directions2) THEN walls
    ELSE LET newRow == row + Directions2[i][1]
             newCol == col + Directions2[i][2]
         IN IF newRow >= 0 /\ newRow < GridRows(g) /\ newCol >= 0 /\ newCol < GridCols(g)
               /\ g[newRow][newCol].isWall /\ ~g[newRow][newCol].isStart
               /\ ~g[newRow][newCol].isEnd
            THEN addWallsFrom(g, row, col, Append(walls, <<newRow, newCol>>), i + 1)
            ELSE addWallsFrom(g, row, col, walls, i + 1)

addWalls(g, row, col, walls) == addWallsFrom(g, row, col, walls, 1)

\* getNeighbors of maze-generators.ts (two steps away) filtered by !n.isWall:
\* the number of open two-step neighbours
openNeighbors(g, row, col) ==
    Cardinality({i \in 1..Len(Directions2) :
        LET newRow == row + Directions2[i][1]
            newCol == col + Directions2[i][2]
        IN /\ newRow >= 0 /\ newRow < GridRows(g) /\ newCol >= 0 /\ newCol < GridCols(g)
           /\ ~g[newRow][newCol].isWall})

RemoveAt(seq, i) == SubSeq(seq, 1, i - 1) \o SubSeq(seq, i + 1, Len(seq))

(* ---- kruskal ---- *)
initialParent(rows, cols) ==
    [row \in 0..(rows - 1) |-> [col \in 0..(cols - 1) |-> row * cols + col]]

\* find with path compression: [root, parent]
RECURSIVE find(_, _, _, _)
find(parent, row, col, cols) ==
    LET id == row * cols + col
    IN IF parent[row][col] # id
       THEN LET r == find(parent, parent[row][col] \div cols, parent[row][col] % cols, cols)
            IN [root |-> r.root, parent |-> [r.parent EXCEPT ![row][col] = r.root]]
       ELSE [root |-> parent[row][col], parent |-> parent]

union(parent, row1, col1, row2, col2, cols) ==
    LET f1 == find(parent, row1, col1, cols)
        f2 == find(f1.parent, row2, col2, cols)
    IN IF f1.root # f2.root
       THEN [f2.parent EXCEPT ![f2.root \div cols][f2.root % cols] = f1.root]
       ELSE f2.parent

\* the candidate edges, in the order the nested loops push them
RECURSIVE kruskalEdgesFrom(_, _, _, _)
kruskalEdgesFrom(rows, cols, row, col) ==
    IF row >= rows THEN <<>>
    ELSE IF col >= cols THEN kruskalEdgesFrom(rows, cols, row + 2, 0)
    ELSE (IF row + 2 < rows
          THEN <<[row1 |-> row, col1 |-> col, row2 |-> row + 2, col2 |-> col]>> ELSE <<>>)
         \o (IF col + 2 < cols
             THEN <<[row1 |-> row, col1 |-> col, row2 |-> row, col2 |-> col + 2]>> ELSE <<>>)
         \o kruskalEdgesFrom(rows, cols, row, col + 2)

kruskalEdges(rows, cols) == kruskalEdgesFrom(rows, cols, 0, 0)

Swap(seq, i, j) == [seq EXCEPT ![i] = seq[j], ![j] = seq[i]]

\* "Remove walls": both endpoints and the cell between them
kruskalCarve(g, e) ==
    openCell(openCell(openCell(g, e.row1, e.col1), e.row2, e.col2),
             (e.row1 + e.row2) \div 2, (e.col1 + e.col2) \div 2)

(* ---- binary tree ---- *)
\* mutant: the east neighbour is offered up to the last column
binaryNeighborsToLastCol(row, col, cols) ==
    (IF row > 0 THEN <<<<row - 2, col>>>> ELSE <<>>)
    \o (IF col < cols - 1 THEN <<<<row, col + 2>>>> ELSE <<>>)

binaryNeighbors(row, col, cols) ==
    (IF row > 0 THEN <<<<row - 2, col>>>> ELSE <<>>)
    \o (IF col < cols - 2 THEN <<<<row, col + 2>>>> ELSE <<>>)

\* the lattice cell after (row, col) in the nested loops, rows as the end marker
NextLattice(row, col, cols) ==
    IF col + 2 < cols THEN <<row, col + 2>> ELSE <<row + 2, 0>>

(* --------------------------- maze actions ----------------------------- *)
\* where a generator starts after the copy (and, but for random, the fill)
FirstLocal(type, rows, cols) ==
    CASE type = "random" -> [row |-> 0, col |-> 0]
      [] type = "recursive" -> [stack |-> <<Frame(0, 0, cols - 1, rows - 1, TRUE)>>]
      [] type = "prim" -> [walls |-> <<>>]
      [] type = "kruskal" -> [parent |-> initialParent(rows, cols),
                              edges |-> kruskalEdges(rows, cols),
                              i |-> Len(kruskalEdges(rows, cols)),
                              k |-> 1]
      [] type = "binary" -> [row |-> 0, col |-> 0]
      [] type = "sidewinder" -> [row |-> 0, col |-> 0, runStart |-> 0]

FirstPc(type) ==
    CASE type = "random" -> "random"
      [] type = "recursive" -> "divide"
      [] type = "prim" -> "prim_seed"
      [] type = "kruskal" -> "kruskal_shuffle"
      [] type = "binary" -> "binary"
      [] type = "sidewinder" -> "sidewinder"

\* generateMaze(grid, type, speed, onUpdate?) up to its first suspension: the
\* copy and, for every type but random, the fill and the first onUpdate
generateMaze(type, cb) ==
    /\ pc = "idle"
    /\ hasOnUpdate' = cb
    /\ mazeType' = type
    /\ LET ng == IF type = "random" THEN mazeCopy(grid) ELSE fillWithWalls(mazeCopy(grid))
       IN /\ newGrid' = ng
          /\ Deliver(ng, cb /\ type # "random")
    /\ local' = FirstLocal(type, GridRows(grid), GridCols(grid))
    /\ pc' = FirstPc(type)
    /\ UNCHANGED <<startNode, endNode, result>>
    /\ UNCHANGED appVars
    /\ UNCHANGED runVars

\* generateRandomMaze: one cell of the nested loops
randomStep ==
    /\ pc = "random"
    /\ \E coin \in BOOLEAN :
         LET row == local.row
             col == local.col
             cols == GridCols(newGrid)
             ng == randomWall(newGrid, row, col, coin)
             nxt == IF col + 1 < cols THEN <<row, col + 1>> ELSE <<row + 1, 0>>
         IN /\ newGrid' = ng
            /\ Deliver(ng, hasOnUpdate /\ ng[row][col].isWall /\ (row * cols + col) % 5 = 0)
            /\ local' = [row |-> nxt[1], col |-> nxt[2]]
            /\ pc' = IF nxt[1] < GridRows(newGrid) THEN "random" ELSE "finish"
    /\ UNCHANGED <<startNode, endNode, result, mazeType, hasOnUpdate>>
    /\ UNCHANGED appVars
    /\ UNCHANGED runVars

\* one call of divide: the frame on top of the call stack
divideStep ==
    /\ pc = "divide"
    /\ local.stack # <<>>
    /\ LET f == Head(local.stack)
           rest == Tail(local.stack)
       IN IF f.x2 - f.x1 < 2 \/ f.y2 - f.y1 < 2
          THEN /\ local' = [stack |-> rest]
               /\ UNCHANGED <<newGrid, grid, aliased>>
               /\ timer' = FALSE
          ELSE IF f.horizontal
          THEN \E hole \in f.x1..(f.x2 - 1) :
                 LET y == (f.y1 + f.y2) \div 2
                     ng == divideRow(newGrid, y, f.x1, f.x2, hole)
                 IN /\ newGrid' = ng
                    /\ Deliver(ng, hasOnUpdate)
                    /\ local' = [stack |-> <<Frame(f.x1, f.y1, f.x2, y - 1, ~f.horizontal),
                                            Frame(f.x1, y + 1, f.x2, f.y2, ~f.horizontal)>>
                                          \o rest]
          ELSE \E hole \in f.y1..(f.y2 - 1) :
                 LET x == (f.x1 + f.x2) \div 2
                     ng == divideCol(newGrid, x, f.y1, f.y2, hole)
                 IN /\ newGrid' = ng
                    /\ Deliver(ng, hasOnUpdate)
                    /\ local' = [stack |-> <<Frame(f.x1, f.y1, x - 1, f.y2, ~f.horizontal),
                                            Frame(x + 1, f.y1, f.x2, f.y2, ~f.horizontal)>>
                                          \o rest]
    /\ pc' = "divide"
    /\ UNCHANGED <<startNode, endNode, result, mazeType, hasOnUpdate>>
    /\ UNCHANGED appVars
    /\ UNCHANGED runVars

\* generateRecursiveMaze returns once the outermost divide has returned
divideDone ==
    /\ pc = "divide"
    /\ local.stack = <<>>
    /\ pc' = "return"
    /\ timer' = FALSE
    /\ UNCHANGED <<grid, startNode, endNode, result, newGrid, local, mazeType, hasOnUpdate, aliased>>
    /\ UNCHANGED appVars
    /\ UNCHANGED runVars

\* generatePrimMaze: "Start from random cell"
primSeed ==
    /\ pc = "prim_seed"
    /\ \E startRow \in DOMAIN newGrid, startCol \in DOMAIN newGrid[0] :
         LET ng == openCell(newGrid, startRow, startCol)
             walls == addWalls(ng, startRow, startCol, <<>>)
         IN /\ newGrid' = ng
            /\ Deliver(ng, FALSE)
            /\ local' = [walls |-> walls]
            /\ pc' = IF walls = <<>> THEN "finish" ELSE "prim_loop"
    /\ UNCHANGED <<startNode, endNode, result, mazeType, hasOnUpdate>>
    /\ UNCHANGED appVars
    /\ UNCHANGED runVars

\* generatePrimMaze: one iteration of while (walls.length > 0)
primStep ==
    /\ pc = "prim_loop"
    /\ \E randomIndex \in 1..Len(local.walls), called \in MaybeCalled :
         LET wall == local.walls[randomIndex]
             walls1 == RemoveAt(local.walls, randomIndex)
             row == wall[1]
             col == wall[2]
             opens == /\ row >= 0 /\ row < GridRows(newGrid)
                      /\ col >= 0 /\ col < GridCols(newGrid)
                      /\ newGrid[row][col].isWall
                      /\ ~newGrid[row][col].isStart /\ ~newGrid[row][col].isEnd
                      /\ openNeighbors(newGrid, row, col) = 1
             ng == IF opens THEN [newGrid EXCEPT ![row][col].isWall = FALSE] ELSE newGrid
             walls2 == IF opens THEN addWalls(ng, row, col, walls1) ELSE walls1
         IN /\ newGrid' = ng
            /\ Deliver(ng, opens /\ called)
            /\ local' = [walls |-> walls2]
            /\ pc' = IF walls2 = <<>> THEN "finish" ELSE "prim_loop"
    /\ UNCHANGED <<startNode, endNode, result, mazeType, hasOnUpdate>>
    /\ UNCHANGED appVars
    /\ UNCHANGED runVars

\* generateKruskalMaze: one iteration of the shuffle (i counts down to 1)
kruskalShuffleStep ==
    /\ pc = "kruskal_shuffle"
    /\ IF local.i > 1
       THEN \E j \in 1..local.i :
              /\ local' = [local EXCEPT !.edges = Swap(@, local.i, j), !.i = @ - 1]
              /\ pc' = "kruskal_shuffle"
       ELSE /\ local' = local
            /\ pc' = IF local.edges = <<>> THEN "finish" ELSE "kruskal_edges"
    /\ timer' = FALSE
    /\ UNCHANGED <<grid, startNode, endNode, result, newGrid, mazeType, hasOnUpdate, aliased>>
    /\ UNCHANGED appVars
    /\ UNCHANGED runVars

\* generateKruskalMaze: one iteration of for (const edge of edges)
kruskalEdgeStep ==
    /\ pc = "kruskal_edges"
    /\ \E called \in MaybeCalled :
       \E f1 \in {find(local.parent, local.edges[local.k].row1, local.edges[local.k].col1,
                        GridCols(newGrid))} :
        \E f2 \in {find(f1.parent, local.edges[local.k].row2, local.edges[local.k].col2,
                         GridCols(newGrid))} :
         LET e == local.edges[local.k]
             cols == GridCols(newGrid)
             joins == f1.root # f2.root
             ng == IF joins THEN kruskalCarve(newGrid, e) ELSE newGrid
         IN /\ newGrid' = ng
            /\ Deliver(ng, joins /\ called)
            /\ local' = [local EXCEPT
                           !.parent = IF joins
                                      THEN union(f2.parent, e.row1, e.col1, e.row2, e.col2, cols)
                                      ELSE f2.parent,
                           !.k = @ + 1]
            /\ pc' = IF local.k + 1 > Len(local.edges) THEN "finish" ELSE "kruskal_edges"
    /\ UNCHANGED <<startNode, endNode, result, mazeType, hasOnUpdate>>
    /\ UNCHANGED appVars
    /\ UNCHANGED runVars

\* generateBinaryTreeMaze: one lattice cell of the nested loops
binaryStep ==
    /\ pc = "binary"
    /\ LET row == local.row
           col == local.col
           cols == GridCols(newGrid)
           g1 == openCell(newGrid, row, col)
           neighbors == binaryNeighbors(row, col, cols)
           nxt == NextLattice(row, col, cols)
       IN /\ IF Len(neighbors) > 0
             THEN \E c \in 1..Len(neighbors), called \in MaybeCalled :
                    LET chosen == neighbors[c]
                        ng == openCell(g1, (row + chosen[1]) \div 2, (col + chosen[2]) \div 2)
                    IN /\ newGrid' = ng
                       /\ Deliver(ng, called)
             ELSE /\ newGrid' = g1
                  /\ Deliver(g1, FALSE)
          /\ local' = [row |-> nxt[1], col |-> nxt[2]]
          /\ pc' = IF nxt[1] < GridRows(newGrid) THEN "binary" ELSE "finish"
    /\ UNCHANGED <<startNode, endNode, result, mazeType, hasOnUpdate>>
    /\ UNCHANGED appVars
    /\ UNCHANGED runVars

\* mutant: runStart stays where it is when a run is closed
sidewinderStepKeepsRunStart ==
    /\ pc = "sidewinder"
    /\ \E coin \in BOOLEAN, called \in MaybeCalled :
         LET row == local.row
             col == local.col
             runStart == local.runStart
             cols == GridCols(newGrid)
             g1 == openCell(newGrid, row, col)
             carveEast == col < cols - 2 /\ (row = 0 \/ coin)
             carveNorth == row > 0 /\ ~carveEast
             nxt == NextLattice(row, col, cols)
         IN /\ IF carveEast
               THEN /\ newGrid' = openCell(g1, row, col + 1)
                    /\ Deliver(openCell(g1, row, col + 1), called)
                    /\ local' = [row |-> nxt[1], col |-> nxt[2],
                                 runStart |-> IF nxt[2] = 0 THEN 0 ELSE runStart]
               ELSE /\ IF carveNorth
                       THEN \E n \in 0..((col - runStart) \div 2) :
                              LET runCol == runStart + n * 2
                              IN /\ newGrid' = openCell(g1, row - 1, runCol)
                                 /\ Deliver(openCell(g1, row - 1, runCol), called)
                       ELSE /\ newGrid' = g1
                            /\ Deliver(g1, called)
                    /\ local' = [row |-> nxt[1], col |-> nxt[2],
                                 runStart |-> IF nxt[2] = 0 THEN 0 ELSE runStart]
            /\ pc' = IF nxt[1] < GridRows(newGrid) THEN "sidewinder" ELSE "finish"
    /\ UNCHANGED <<startNode, endNode, result, mazeType, hasOnUpdate>>
    /\ UNCHANGED appVars
    /\ UNCHANGED runVars

\* generateSidewinderMaze: one lattice cell of the nested loops
sidewinderStep ==
    /\ pc = "sidewinder"
    /\ \E coin \in BOOLEAN, called \in MaybeCalled :
         LET row == local.row
             col == local.col
             runStart == local.runStart
             cols == GridCols(newGrid)
             g1 == openCell(newGrid, row, col)
             carveEast == col < cols - 2 /\ (row = 0 \/ coin)
             carveNorth == row > 0 /\ ~carveEast
             nxt == NextLattice(row, col, cols)
         IN /\ IF carveEast
               THEN /\ newGrid' = openCell(g1, row, col + 1)
                    /\ Deliver(openCell(g1, row, col + 1), called)
                    /\ local' = [row |-> nxt[1], col |-> nxt[2],
                                 runStart |-> IF nxt[2] = 0 THEN 0 ELSE runStart]
               ELSE /\ IF carveNorth
                       THEN \E n \in 0..((col - runStart) \div 2) :
                              LET runCol == runStart + n * 2
                              IN /\ newGrid' = openCell(g1, row - 1, runCol)
                                 /\ Deliver(openCell(g1, row - 1, runCol), called)
                       ELSE /\ newGrid' = g1
                            /\ Deliver(g1, called)
                    /\ local' = [row |-> nxt[1], col |-> nxt[2],
                                 runStart |-> IF nxt[2] = 0 THEN 0 ELSE col + 2]
            /\ pc' = IF nxt[1] < GridRows(newGrid) THEN "sidewinder" ELSE "finish"
    /\ UNCHANGED <<startNode, endNode, result, mazeType, hasOnUpdate>>
    /\ UNCHANGED appVars
    /\ UNCHANGED runVars

\* the closing `if (onUpdate) onUpdate([...grid])` of every generator but recursive
mazeFinish ==
    /\ pc = "finish"
    /\ aliased' = (aliased \/ hasOnUpdate)
    /\ grid' = IF aliased \/ hasOnUpdate THEN newGrid ELSE grid
    /\ timer' = FALSE
    /\ pc' = "return"
    /\ UNCHANGED <<startNode, endNode, result, newGrid, local, mazeType, hasOnUpdate>>
    /\ UNCHANGED appVars
    /\ UNCHANGED runVars

\* `return grid`, and the caller's setGrid(newGrid)
mazeReturn ==
    /\ pc = "return"
    /\ grid' = newGrid
    /\ aliased' = TRUE
    /\ timer' = FALSE
    /\ local' = NoLocal
    /\ pc' = "generated"
    /\ UNCHANGED <<startNode, endNode, result, newGrid, mazeType, hasOnUpdate>>
    /\ UNCHANGED appVars
    /\ UNCHANGED runVars

(* ---- maze generation on a fresh grid with start and end placed or not -- *)
MazeShapes == {sh \in (1..MaxMazeCells) \X (1..MaxMazeCells) : sh[1] * sh[2] <= MaxMazeCells}

InitMaze ==
    \E sh \in MazeShapes :
      \E start \in CellsOfShape(sh) \cup {NoNode} :
        \E end \in CellsOfShape(sh) \cup {NoNode} :
          /\ grid = DrawnGrid(sh, {}, {}, start, end)
          /\ startNode = start
          /\ endNode = end
          /\ result = NoResult
          /\ pc = "idle"
          /\ newGrid = NoGrid
          /\ local = NoLocal
          /\ mazeType = "none"
          /\ hasOnUpdate = FALSE
          /\ aliased = FALSE
          /\ timer = FALSE
          /\ runEvents = <<>> /\ stats = NoStats /\ previousStats = <<>>
          /\ selectedAlgorithm = "dijkstra" /\ iterations = 0

NextMaze ==
    \/ \E type \in MazeTypes, cb \in BOOLEAN : generateMaze(type, cb)
    \/ randomStep
    \/ divideStep
    \/ divideDone
    \/ primSeed
    \/ primStep
    \/ kruskalShuffleStep
    \/ kruskalEdgeStep
    \/ binaryStep
    \/ sidewinderStep
    \/ mazeFinish
    \/ mazeReturn

SpecMaze == InitMaze /\ [][NextMaze]_vars

(* ---- generateMaze called without onUpdate ---- *)
\* Without the callback no await of generateMaze waits for a timer: every
\* continuation is a microtask, which the event loop runs as soon as the
\* current one ends, so the steps are weakly fair.
\* a fresh grid, without start and end or with them in opposite corners
InitMazeSync ==
    \E sh \in MazeShapes :
      \E start \in {NoNode, <<0, 0>>}, end \in {NoNode, <<sh[1] - 1, sh[2] - 1>>} :
        /\ grid = DrawnGrid(sh, {}, {}, start, end)
        /\ startNode = start
        /\ endNode = end
        /\ result = NoResult
        /\ pc = "idle"
        /\ newGrid = NoGrid
        /\ local = NoLocal
        /\ mazeType = "none"
        /\ hasOnUpdate = FALSE
        /\ aliased = FALSE
        /\ timer = FALSE
        /\ runEvents = <<>> /\ stats = NoStats /\ previousStats = <<>>
        /\ selectedAlgorithm = "dijkstra" /\ iterations = 0

NextMazeSync ==
    \/ \E type \in MazeTypes : generateMaze(type, FALSE)
    \/ randomStep
    \/ divideStep
    \/ divideDone
    \/ primSeed
    \/ primStep
    \/ kruskalShuffleStep
    \/ kruskalEdgeStep
    \/ binaryStep
    \/ sidewinderStep
    \/ mazeFinish
    \/ mazeReturn

SpecMazeSync == InitMazeSync /\ [][NextMazeSync]_vars /\ WF_vars(NextMazeSync)

(* ======================== the whole application ======================== *)
\* Largest gridSize of the application (the grid is gridSize x gridSize).
MaxGridSize == 2

\* onRunAlgorithm (runAlgorithm) with selectedAlgorithm = name, as the
\* component sees it: the grid the search left, and setStats(result.stats)
onRunAlgorithm(name) ==
    /\ ~isRunning
    /\ startNode # NoNode
    /\ endNode # NoNode
    /\ LET r == algorithms(name, grid, startNode, endNode)
       IN /\ grid' = r.grid
          /\ stats' = r.result.stats
    /\ UNCHANGED <<startNode, endNode, result, pc>>
    /\ UNCHANGED mazeVars
    /\ UNCHANGED runVars
    /\ UNCHANGED <<runEvents, previousStats>>

\* onClearGrid (clearGrid) as the component sees it
onClearGrid ==
    /\ ~isRunning
    /\ grid' = clearedGrid(grid)
    /\ stats' = NoStats
    /\ UNCHANGED <<startNode, endNode, result, pc>>
    /\ UNCHANGED mazeVars
    /\ UNCHANGED runVars
    /\ UNCHANGED <<runEvents, previousStats>>

\* generateMazeHandler(mazeType) up to the first suspension of generateMaze,
\* which it calls with the callback (updatedGrid) => setGrid([...updatedGrid])
generateMazeHandler(type) ==
    /\ ~isRunning
    /\ hasOnUpdate' = TRUE
    /\ mazeType' = type
    /\ LET ng == IF type = "random" THEN mazeCopy(grid) ELSE fillWithWalls(mazeCopy(grid))
       IN /\ newGrid' = ng
          /\ aliased' = (type # "random")
          /\ timer' = (type # "random")
          /\ grid' = IF type # "random" THEN ng ELSE grid
    /\ local' = FirstLocal(type, GridRows(grid), GridCols(grid))
    /\ pc' = FirstPc(type)
    /\ UNCHANGED <<startNode, endNode, result>>
    /\ UNCHANGED appVars
    /\ UNCHANGED runVars

\* generateMazeHandler after the await: setGrid(newGrid); setIsRunning(false)
generateMazeHandlerDone ==
    /\ pc = "return"
    /\ grid' = newGrid
    /\ newGrid' = NoGrid
    /\ local' = NoLocal
    /\ aliased' = FALSE
    /\ timer' = FALSE
    /\ mazeType' = "none"
    /\ hasOnUpdate' = FALSE
    /\ pc' = "idle"
    /\ UNCHANGED <<startNode, endNode, result>>
    /\ UNCHANGED appVars
    /\ UNCHANGED runVars

\* the component after mount: initializeGrid on the chosen gridSize
InitApp ==
    \E size \in 1..MaxGridSize :
      /\ grid = initializeGrid(size, size)
      /\ startNode = NoNode
      /\ endNode = NoNode
      /\ result = NoResult
      /\ pc = "idle"
      /\ newGrid = NoGrid
      /\ local = NoLocal
      /\ mazeType = "none"
      /\ hasOnUpdate = FALSE
      /\ aliased = FALSE
      /\ timer = FALSE
      /\ runEvents = <<>> /\ stats = NoStats /\ previousStats = <<>>
      /\ selectedAlgorithm = "dijkstra" /\ iterations = 0

\* The user draws on a grid without search marks (after Clear, Reset, a resize
\* or a maze) and makes at most MaxHeavy cells heavy; searches, mazes, Clear,
\* Reset and resizes come in any order.  primStep and kruskalEdgeStep are left
\* out: they need a cell two steps from another, which no grid of
\* gridSize <= MaxGridSize has.
NextApp ==
    \/ \E mode \in Modes, isWeightedMode \in BOOLEAN, n \in CellsOf(grid) :
         /\ grid = clearedGrid(grid)
         /\ handleNodeClick(mode, isWeightedMode, n[1], n[2])
         /\ Cardinality({c \in CellsOf(grid) : At(grid', c).weight # DefaultWeight}) <= MaxHeavy
    \/ \E size \in 1..MaxGridSize : resize(size)
    \/ resetGrid
    \/ onClearGrid
    \/ \E name \in Algorithms : onRunAlgorithm(name)
    \/ \E type \in MazeTypes : generateMazeHandler(type)
    \/ randomStep
    \/ divideStep
    \/ divideDone
    \/ primSeed
    \/ kruskalShuffleStep
    \/ binaryStep
    \/ sidewinderStep
    \/ mazeFinish
    \/ generateMazeHandlerDone

SpecApp == InitApp /\ [][NextApp]_vars

(* ---- generateMaze on a grid with walls, heavy cells and search marks ---- *)
\* the grid as the user drew it, or as one search left it
NextMazeCopy ==
    \/ \E name \in Algorithms : pc = "idle" /\ grid = clearedGrid(grid) /\ onRunAlgorithm(name)
    \/ \E type \in MazeTypes, cb \in BOOLEAN : generateMaze(type, cb)
    \/ randomStep
    \/ divideStep
    \/ divideDone
    \/ primSeed
    \/ primStep
    \/ kruskalShuffleStep
    \/ kruskalEdgeStep
    \/ binaryStep
    \/ sidewinderStep
    \/ mazeFinish
    \/ mazeReturn

SpecMazeCopy == InitDrawn(Shapes(MaxRerunCells), MaxWalls, MaxHeavy) /\ [][NextMazeCopy]_vars

(* ---- the comparison history: Save Results of the stats panel ---- *)
\* mutant: the earlier entry of the algorithm is kept
savedStatsUnfiltered(prev, algorithm, st) ==
    LET added == Append(prev, [algorithm |-> algorithm, stats |-> st])
    IN IF Len(added) > 5 THEN SubSeq(added, Len(added) - 4, Len(added)) ELSE added

\* the updater of handleSaveStats: filter, append, slice(-5)
savedStats(prev, algorithm, st) ==
    LET filtered == SelectSeq(prev, LAMBDA entry : entry.algorithm # algorithm)
        added == Append(filtered, [algorithm |-> algorithm, stats |-> st])
    IN IF Len(added) > 5 THEN SubSeq(added, Len(added) - 4, Len(added)) ELSE added

\* Save Results: the panel is rendered while stats is set and passes the
\* selected algorithm and the stats it shows
handleSaveStats(algorithm) ==
    /\ stats # NoStats
    /\ previousStats' = savedStats(previousStats, algorithm, stats)
    /\ UNCHANGED <<grid, startNode, endNode, result, pc, runEvents, stats>>
    /\ UNCHANGED mazeVars
    /\ UNCHANGED runVars

\* the smallest grid, on which one cell is both start and end
InitHistory ==
    /\ grid = initializeGrid(1, 1)
    /\ startNode = NoNode
    /\ endNode = NoNode
    /\ result = NoResult
    /\ pc = "idle"
    /\ newGrid = NoGrid
    /\ local = NoLocal
    /\ mazeType = "none"
    /\ hasOnUpdate = FALSE
    /\ aliased = FALSE
    /\ timer = FALSE
    /\ runEvents = <<>> /\ stats = NoStats /\ previousStats = <<>>
    /\ selectedAlgorithm = "dijkstra" /\ iterations = 0

NextHistory ==
    \/ \E mode \in Modes, isWeightedMode \in BOOLEAN, n \in CellsOf(grid) :
         handleNodeClick(mode, isWeightedMode, n[1], n[2])
    \/ \E name \in Algorithms : onRunAlgorithm(name)
    \/ onClearGrid
    \/ resetGrid
    \/ \E algorithm \in Algorithms : handleSaveStats(algorithm)

SpecHistory == InitHistory /\ [][NextHistory]_vars

(* ---- Save Results with the select of the control panel in use ---- *)
\* onAlgorithmChange (setSelectedAlgorithm): the select is never disabled
onAlgorithmChange(name) ==
    /\ selectedAlgorithm' = name
    /\ UNCHANGED <<grid, startNode, endNode, result, pc, iterations>>
    /\ UNCHANGED mazeVars
    /\ UNCHANGED appVars

\* Visualize runs algorithms[selectedAlgorithm]; the stats panel is rendered
\* with algorithm={selectedAlgorithm} and its button saves (algorithm, stats)
NextSave ==
    \/ \E mode \in {"start", "end"}, n \in CellsOf(grid) :
         handleNodeClick(mode, FALSE, n[1], n[2])
    \/ \E name \in Algorithms : onAlgorithmChange(name)
    \/ runAlgorithm(selectedAlgorithm)
    \/ clearGrid
    \/ handleSaveStats(selectedAlgorithm)

SpecSave == InitHistory /\ [][NextSave]_vars

(* ---- the controls while a search or a maze generation is in flight ---- *)
Keys == {"v", "c", "r"}

\* handleKeyPress of the control panel for the keys that reach the grid, with
\* selectedAlgorithm = name ("1".."4" and "w" set the drawing mode and the
\* weighted switch, which handleNodeClick takes as inputs here)
handleKeyPress(key, name) ==
    /\ ~isRunning
    /\ \/ /\ key = "v"
          /\ startNode # NoNode /\ endNode # NoNode
          /\ runAlgorithmStart(name)
       \/ /\ key = "c"
          /\ clearGrid
       \/ /\ key = "r"
          /\ resetGrid

\* Every control is tried in every state, and its handler decides.  While
\* nothing is in flight the user clears the marks of a run before drawing or
\* running again, keeps at most MaxWalls walls when drawing and makes no cell
\* heavy.  primStep and kruskalEdgeStep are left out as in NextApp.
NextBusy ==
    \/ \E mode \in Modes, isWeightedMode \in BOOLEAN, n \in CellsOf(grid) :
         /\ handleNodeClick(mode, isWeightedMode, n[1], n[2])
         /\ ~isRunning =>
              /\ pc # "ran"
              /\ Cardinality({c \in CellsOf(grid) : At(grid', c).isWall}) <= MaxWalls
              /\ \A c \in CellsOf(grid) : At(grid', c).weight = DefaultWeight
    \/ \E name \in Algorithms : pc # "ran" /\ runAlgorithmStart(name)
    \/ runAlgorithmStep
    \/ \E key \in Keys, name \in Algorithms : (key = "v" => pc # "ran") /\ handleKeyPress(key, name)
    \/ \E type \in MazeTypes : pc # "ran" /\ generateMazeHandler(type)
    \/ randomStep
    \/ divideStep
    \/ divideDone
    \/ primSeed
    \/ kruskalShuffleStep
    \/ binaryStep
    \/ sidewinderStep
    \/ mazeFinish
    \/ generateMazeHandlerDone

SpecBusy == InitApp /\ [][NextBusy]_vars

(* ====================== reference definitions ========================= *)
\* What the claims compare the program against; none of it uses the
\* program's own operators.
Adjacent(a, b) == Abs(a[1] - b[1]) + Abs(a[2] - b[2]) = 1

OpenCells(g) == {n \in CellsOf(g) : ~At(g, n).isWall}

\* the open cells joined to the cells of S by 4-connected steps through open cells
RECURSIVE Closure(_, _)
Closure(g, S) ==
    LET T == S \cup {m \in OpenCells(g) : \E n \in S : Adjacent(m, n)}
    IN IF T = S THEN S ELSE Closure(g, T)

ReachableFrom(g, n) == Closure(g, {n} \cap OpenCells(g))

Connected(g) == \A n \in OpenCells(g) : ReachableFrom(g, n) = OpenCells(g)

\* least number of edges of a route from the cells of S to `to` (to reachable)
RECURSIVE EdgesTo(_, _, _, _)
EdgesTo(g, S, to, k) ==
    IF to \in S THEN k
    ELSE EdgesTo(g, S \cup {m \in OpenCells(g) : \E n \in S : Adjacent(m, n)}, to, k + 1)

MinEdges(g, from, to) == EdgesTo(g, {from}, to, 0)

Min(S) == CHOOSE x \in S : \A y \in S : x <= y
Max(S) == CHOOSE x \in S : \A y \in S : y <= x

\* least sum of entered-cell weights from `from` to every open cell
\* (Bellman-Ford rounds up to the fixpoint)
RECURSIVE WeightRounds(_, _)
WeightRounds(g, d) ==
    LET e == [n \in OpenCells(g) |->
                Min({d[n]} \cup {d[m] + At(g, n).weight :
                                   m \in {x \in OpenCells(g) : Adjacent(x, n)}})]
    IN IF e = d THEN d ELSE WeightRounds(g, e)

MinWeight(g, from, to) ==
    WeightRounds(g, [n \in OpenCells(g) |-> IF n = from THEN 0 ELSE POSITIVE_INFINITY])[to]

RECURSIVE SumWeights(_, _, _)
SumWeights(g, path, i) ==
    IF i > Len(path) THEN 0 ELSE At(g, path[i]).weight + SumWeights(g, path, i + 1)

\* sum of the weights of the cells a path enters: all but its first cell
EnteredWeight(g, path) == SumWeights(g, path, 2)

\* a route: from `from` to `to`, consecutive cells adjacent, no wall
IsRoute(g, path, from, to) ==
    /\ Len(path) >= 1
    /\ path[1] = from
    /\ path[Len(path)] = to
    /\ \A i \in 1..Len(path) : path[i] \in OpenCells(g)
    /\ \A i \in 1..(Len(path) - 1) : Adjacent(path[i], path[i + 1])

NoRepeats(seq) == \A i, j \in 1..Len(seq) : i # j => seq[i] # seq[j]

Elements(seq) == {seq[i] : i \in 1..Len(seq)}

Ran(name) == pc = "ran" /\ result.algorithm = name

EndReachable == endNode \in ReachableFrom(grid, startNode)

(* ============================== claims ================================ *)
\* C1: whenever end is reachable, the path dijkstra returns is a route from
\* start to end whose entered-cell weights sum to the least possible value.
C1_DijkstraOptimal ==
    (Ran("dijkstra") /\ EndReachable) =>
        /\ IsRoute(grid, result.path, startNode, endNode)
        /\ EnteredWeight(grid, result.path) = MinWeight(grid, startNode, endNode)

\* dijkstra took a detour around weighted cells: more edges than the shortest route
C1_Witness ==
    /\ Ran("dijkstra")
    /\ result.stats.pathFound
    /\ Len(result.path) - 1 > MinEdges(grid, startNode, endNode)

\* C2: whenever end is reachable, the path astar returns is a route from start
\* to end with the same entered-cell weight as the least-weight route.
C2_AstarOptimal ==
    (Ran("astar") /\ EndReachable) =>
        /\ IsRoute(grid, result.path, startNode, endNode)
        /\ EnteredWeight(grid, result.path) = MinWeight(grid, startNode, endNode)

\* astar left the straight line to end to go around a weighted cell
C2_Witness ==
    /\ Ran("astar")
    /\ result.stats.pathFound
    /\ Len(result.path) - 1 > heuristic(startNode, endNode)

\* C3: whenever end is reachable, the path bidirectional returns is a route
\* from start to end with the least possible number of edges.
C3_BidirectionalOptimal ==
    (Ran("bidirectional") /\ EndReachable) =>
        /\ IsRoute(grid, result.path, startNode, endNode)
        /\ Len(result.path) - 1 = MinEdges(grid, startNode, endNode)

\* bidirectional joined start and end around walls over at least four edges
C3_Witness ==
    /\ Ran("bidirectional")
    /\ result.stats.pathFound
    /\ Len(result.path) >= 5
    /\ Len(result.path) - 1 > heuristic(startNode, endNode)

\* C4: whenever end is reachable, the path bfs returns is a route from start to
\* end with the least possible number of edges, and stats.pathLength is that
\* number plus one.
C4_BfsOptimal ==
    (Ran("bfs") /\ EndReachable) =>
        /\ IsRoute(grid, result.path, startNode, endNode)
        /\ Len(result.path) - 1 = MinEdges(grid, startNode, endNode)
        /\ result.stats.pathLength = MinEdges(grid, startNode, endNode) + 1

\* bfs found a route that walls force to be longer than the Manhattan distance
C4_Witness ==
    /\ Ran("bfs")
    /\ result.stats.pathFound
    /\ result.stats.pathLength - 1 > heuristic(startNode, endNode)

\* C5: for each of the six algorithms, if a route of open cells joins start and
\* end then stats.pathFound is true.
C5_Complete ==
    (pc = "ran" /\ EndReachable) => result.stats.pathFound

\* dfs and greedy found a path that is not a shortest one
C5_Witness ==
    /\ pc = "ran"
    /\ result.algorithm \in {"dfs", "greedy"}
    /\ result.stats.pathFound
    /\ Len(result.path) - 1 > MinEdges(grid, startNode, endNode)

\* C6: for each of the six algorithms, every non-empty returned path starts at
\* start, ends at end, steps between orthogonally adjacent cells, contains no
\* wall and contains no cell twice.
C6_Sound ==
    (pc = "ran" /\ result.path # <<>>) =>
        /\ IsRoute(grid, result.path, startNode, endNode)
        /\ NoRepeats(result.path)

\* bidirectional returned a path with cells strictly between start and end
C6_Witness ==
    /\ Ran("bidirectional")
    /\ Len(result.path) = 4

\* C7: for each of the six algorithms, when no route joins start and end the
\* result has pathFound = false, an empty path, pathLength = 0, nodesInPath = 0,
\* and visitedNodes holds every open cell reachable from start (for
\* bidirectional: every open cell reachable from start or from end).
C7_NoPath ==
    (pc = "ran" /\ ~EndReachable) =>
        /\ result.stats.pathFound = FALSE
        /\ result.path = <<>>
        /\ result.stats.pathLength = 0
        /\ result.stats.nodesInPath = 0
        /\ (IF result.algorithm = "bidirectional"
            THEN ReachableFrom(grid, startNode) \cup ReachableFrom(grid, endNode)
            ELSE ReachableFrom(grid, startNode)) \subseteq Elements(result.visitedNodes)

\* a run without a route that explored more than one cell on either side
C7_Witness ==
    /\ pc = "ran"
    /\ ~EndReachable
    /\ Cardinality(ReachableFrom(grid, startNode)) >= 2
    /\ Cardinality(ReachableFrom(grid, endNode)) >= 2

\* the grid as initializeGrid and the click handlers alone would have built it:
\* the walls, weights, start and end of g, every transient field fresh
FreshlyDrawn(g) ==
    [row \in DOMAIN g |-> [col \in DOMAIN g[row] |->
        [FreshNode(row, col) EXCEPT !.isWall = g[row][col].isWall,
                                    !.weight = g[row][col].weight,
                                    !.isStart = g[row][col].isStart,
                                    !.isEnd = g[row][col].isEnd]]]

\* C8: whenever dijkstra, astar or bfs has run, on a grid left dirty by any
\* sequence of earlier runs or cleared by clearGrid, its path, visited order
\* and stats are those of a run on the freshly initialised grid with the same
\* walls, weights, start and end.
C8_Repeatable ==
    (pc = "ran" /\ result.algorithm \in {"dijkstra", "astar", "bfs"}) =>
        result = algorithms(result.algorithm, FreshlyDrawn(grid), startNode, endNode).result

\* bfs has run on a grid that an earlier astar or greedy run left dirty: bfs
\* never writes heuristic, and a cell still carries one
C8_Witness ==
    /\ Ran("bfs")
    /\ result.stats.pathFound
    /\ \E n \in CellsOf(grid) : At(grid, n).heuristic > 0 /\ At(grid, n).isVisited

\* no start or end cell of g is a wall
EndpointsOpen(g) ==
    \A n \in CellsOf(g) : (At(g, n).isStart \/ At(g, n).isEnd) => ~At(g, n).isWall

\* C9: during and after generateMaze, for each maze type, no cell with isStart
\* or isEnd is a wall: neither in the working copy that is returned nor in
\* the grid the onUpdate snapshots have handed to the caller.
C9_EndpointsNeverWalls ==
    pc # "idle" =>
        /\ EndpointsOpen(grid)
        /\ newGrid # NoGrid => EndpointsOpen(newGrid)

\* a maze was returned after onUpdate snapshots, with distinct start and end
\* cells and a wall next to the start cell
C9_Witness ==
    /\ pc = "generated"
    /\ aliased
    /\ startNode # NoNode /\ endNode # NoNode /\ startNode # endNode
    /\ At(grid, startNode).isStart /\ At(grid, endNode).isEnd
    /\ \E n \in CellsOf(grid) : Adjacent(n, startNode) /\ At(grid, n).isWall

\* C10: in the grid generateMaze returns for type "recursive", whatever gaps
\* were drawn, every open cell is reachable from every other open cell by
\* 4-connected steps through open cells.
C10_RecursiveConnected ==
    (pc = "generated" /\ mazeType = "recursive") => Connected(grid)

\* C11: in the grid generateMaze returns for type "prim", whatever cells were
\* drawn, every open cell is reachable from every other open cell by
\* 4-connected steps through open cells.
C11_PrimConnected ==
    (pc = "generated" /\ mazeType = "prim") => Connected(grid)

\* the number of unordered pairs of adjacent open cells
OpenEdges(g) ==
    Cardinality({e \in SUBSET OpenCells(g) :
                   Cardinality(e) = 2 /\ \A a, b \in e : a = b \/ Adjacent(a, b)})

\* the open cells form a tree: connected, with one edge fewer than cells
IsTree(g) ==
    /\ Connected(g)
    /\ OpenCells(g) # {} => OpenEdges(g) = Cardinality(OpenCells(g)) - 1

\* C12: in the grid generateMaze returns for type "kruskal", for every input
\* grid (start and end cells absent or placed anywhere) and every shuffle, the
\* open cells form a tree under 4-adjacency: connected and without a cycle.
C12_KruskalTree ==
    (pc = "generated" /\ mazeType = "kruskal") => IsTree(grid)

\* C13: after any sequence of clicks in any drawing mode, clear, reset,
\* resize, maze generations and search runs, at most one cell has isStart, at
\* most one cell has isEnd, and no start or end cell is a wall.
C13_GridInvariant ==
    /\ Cardinality({n \in CellsOf(grid) : At(grid, n).isStart}) <= 1
    /\ Cardinality({n \in CellsOf(grid) : At(grid, n).isEnd}) <= 1
    /\ EndpointsOpen(grid)

\* a search has run between walls with distinct start and end cells in place
C13_Witness ==
    /\ ~isRunning
    /\ stats # NoStats
    /\ startNode # NoNode /\ endNode # NoNode /\ startNode # endNode
    /\ At(grid, startNode).isStart /\ At(grid, endNode).isEnd
    /\ \E n \in CellsOf(grid) : At(grid, n).isWall

\* C14: on a 5 by 5 grid with no walls, start (0,0) and end (0,4), bfs
\* returns pathFound = true, pathLength = 5, the path (0,0), (0,1), (0,2),
\* (0,3), (0,4) in that order, and nodesVisited at most 25.
C14_BfsScenario ==
    (/\ Ran("bfs")
     /\ GridRows(grid) = 5 /\ GridCols(grid) = 5
     /\ \A n \in CellsOf(grid) : ~At(grid, n).isWall
     /\ startNode = <<0, 0>> /\ endNode = <<0, 4>>)
    => /\ result.stats.pathFound
       /\ result.stats.pathLength = 5
       /\ result.path = <<<<0, 0>>, <<0, 1>>, <<0, 2>>, <<0, 3>>, <<0, 4>>>>
       /\ result.stats.nodesVisited <= 25

C14_Witness ==
    /\ Ran("bfs")
    /\ GridRows(grid) = 5 /\ GridCols(grid) = 5
    /\ \A n \in CellsOf(grid) : ~At(grid, n).isWall
    /\ startNode = <<0, 0>> /\ endNode = <<0, 4>>
    /\ Len(result.path) = 5

\* the grid with every weight set to the default
UnitWeights(g) ==
    [row \in DOMAIN g |-> [col \in DOMAIN g[row] |->
        [g[row][col] EXCEPT !.weight = DefaultWeight]]]

\* C15: bfs ignores weights: on two grids that differ only in the weight
\* field of their cells it returns the same path, the same visited order and
\* the same stats.  Every weighted grid is compared with its unit-weight twin,
\* so any two grids with the same twin agree.
C15_BfsIgnoresWeights ==
    Ran("bfs") =>
        LET drawn == clearedGrid(grid)
            twin == bfs(UnitWeights(drawn), startNode, endNode).result
        IN /\ result.path = twin.path
           /\ result.visitedNodes = twin.visitedNodes
           /\ result.stats = twin.stats

\* bfs has run over a heavy cell and put it on the returned path
C15_Witness ==
    /\ Ran("bfs")
    /\ result.stats.pathFound
    /\ \E i \in 1..Len(result.path) : At(grid, result.path[i]).weight = HeavyWeight

\* after is before without the entries of the algorithm and without some of
\* its oldest entries, followed by the saved entry
SavedLast(before, after, algorithm, st) ==
    LET others == SelectSeq(before, LAMBDA entry : entry.algorithm # algorithm)
    IN /\ after # <<>>
       /\ after[Len(after)] = [algorithm |-> algorithm, stats |-> st]
       /\ \E k \in 0..Len(others) :
             SubSeq(after, 1, Len(after) - 1) = SubSeq(others, k + 1, Len(others))

\* C16: the stats history holds at most 5 entries and no two entries with the
\* same algorithm; a save puts the saved entry last, keeps one entry for that
\* algorithm and the others in their order; resetGrid empties the history.
C16_HistoryBuffer ==
    /\ [](/\ Len(previousStats) <= 5
          /\ \A i, j \in 1..Len(previousStats) :
                previousStats[i].algorithm = previousStats[j].algorithm => i = j)
    /\ [][(\A algorithm \in Algorithms :
              handleSaveStats(algorithm) => SavedLast(previousStats, previousStats', algorithm, stats))
          /\ (resetGrid => previousStats' = <<>>)]_vars

\* five saved entries, the first of them for the algorithm selected last of all
C16_Witness ==
    /\ Len(previousStats) = 5
    /\ previousStats[5].algorithm = "dijkstra"
    /\ previousStats[1].algorithm = "bidirectional"
    /\ stats # NoStats

\* C17: when generateMaze is called without an onUpdate callback, no step of
\* any of the six maze types suspends on a timer, and the call terminates
\* returning the maze grid it worked on.
C17_NoCallbackNoTimer ==
    /\ [](~hasOnUpdate => ~timer)
    /\ (pc # "idle" /\ ~hasOnUpdate) ~> (pc = "generated" /\ grid = newGrid)

\* a maze of each kind of step has returned without a callback: walls stand
\* and a cell was opened two steps from another
C17_Witness ==
    /\ pc = "generated"
    /\ ~hasOnUpdate
    /\ mazeType \in {"prim", "kruskal"}
    /\ Cardinality(OpenCells(grid)) >= 2
    /\ \E n \in CellsOf(grid) : At(grid, n).isWall

\* C18: in each of the six algorithms the per-node delay is awaited only
\* after visiting a cell that is neither start nor end: no such delay belongs
\* to the visit of the start cell or of the end cell.
C18_NoDelayAtEndpoints ==
    pc = "ran" =>
        \A i \in 1..Len(runEvents) :
            (runEvents[i].op = "delay" /\ runEvents[i].ms # "50")
                => runEvents[i].node \notin {startNode, endNode}

\* C19: every cell marked isVisited and appended to the visited sequence is
\* followed by an onGridUpdate call before any further cell is marked and
\* appended.
C19_UpdateAfterEveryVisit ==
    pc = "ran" =>
        \A i \in 1..Len(runEvents) :
            runEvents[i].op = "visit" =>
                \E j \in (i + 1)..Len(runEvents) :
                    /\ runEvents[j].op = "onGridUpdate"
                    /\ \A k \in (i + 1)..(j - 1) : runEvents[k].op # "visit"

\* the nodes of a path other than start and end, in path order
Interior(path, start, end) == SelectSeq(path, LAMBDA n : n # start /\ n # end)

\* C20: when a run returns with pathFound = true, the cells with isPath are
\* exactly the cells of the returned path other than start and end; start and
\* end are on the path and never get isPath; the interior cells are marked
\* one at a time in start-to-end order, each followed by one onGridUpdate.
C20_PathReveal ==
    (pc = "ran" /\ result.stats.pathFound) =>
        LET marks == SelectSeq(runEvents, LAMBDA e : e.op = "isPath")
            inner == Interior(result.path, startNode, endNode)
        IN /\ {n \in CellsOf(grid) : At(grid, n).isPath}
                = Elements(result.path) \ {startNode, endNode}
           /\ startNode \in Elements(result.path)
           /\ endNode \in Elements(result.path)
           /\ Head(result.path) = startNode
           /\ result.path[Len(result.path)] = endNode
           /\ Len(marks) = Len(inner)
           /\ \A i \in 1..Len(marks) : marks[i].node = inner[i]
           /\ \A i \in 1..Len(runEvents) :
                 runEvents[i].op = "isPath" =>
                     /\ i < Len(runEvents)
                     /\ runEvents[i + 1].op = "onGridUpdate"
                     /\ (i + 2 <= Len(runEvents) => runEvents[i + 2].op # "onGridUpdate")

\* a run has revealed a path with two interior cells
C20_Witness ==
    /\ pc = "ran"
    /\ result.stats.pathFound
    /\ Len(Interior(result.path, startNode, endNode)) >= 2
    /\ Len(SelectSeq(runEvents, LAMBDA e : e.op = "isPath")) >= 2

\* C21: on a successful run the end timestamp that stats.executionTime is
\* computed from is taken after the last path-reveal delay has completed.
C21_EndTimeAfterReveal ==
    (pc = "ran" /\ result.stats.pathFound) =>
        /\ \E i \in 1..Len(runEvents) : runEvents[i].op = "endTime"
        /\ \A i, j \in 1..Len(runEvents) :
              (runEvents[i].op = "endTime"
                 /\ runEvents[j].op = "delay" /\ runEvents[j].ms = "50") => j < i

\* the run in steps returns what the run in one piece returns
StepsAgree ==
    pc = "ran" =>
        \E r \in {algorithms(result.algorithm, FreshlyDrawn(grid), startNode, endNode)} :
            /\ grid = r.grid
            /\ result = r.result
            /\ runEvents = r.events

\* the cells a search in flight has discovered and still has to take up
Frontier(s) ==
    CASE s.algorithm = "dijkstra" ->
           {n \in Elements(s.unvisitedNodes) :
              ~At(s.g, n).isWall /\ At(s.g, n).distance # POSITIVE_INFINITY}
      [] s.algorithm \in {"astar", "greedy"} -> Elements(s.openSet)
      [] s.algorithm = "bfs" -> Elements(s.queue)
      [] s.algorithm = "dfs" ->
           {n \in CellsOf(s.g) :
              /\ ~At(s.g, n).isWall /\ ~At(s.g, n).isVisited
              /\ \E k \in 1..Len(s.stack) :
                   \/ s.stack[k].currentNode = n
                   \/ Adjacent(s.stack[k].currentNode, n)}
      [] s.algorithm = "bidirectional" -> Elements(s.startQueue) \cup Elements(s.endQueue)

\* C22: every run of each of the six algorithms eventually returns a result;
\* no cell is visited twice, the number of loop iterations is bounded by the
\* size of the grid, and a run that returns without a path returns when its
\* frontier (for bidirectional: both queues) is exhausted.
C22_Terminates ==
    /\ (pc = "searching") ~> (pc = "ran")
    /\ [](pc = "searching" => NoRepeats(local.visitedNodes))
    /\ [](pc = "ran" => /\ NoRepeats(result.visitedNodes)
                        /\ Len(result.visitedNodes) <= Cardinality(CellsOf(grid)))
    /\ [](iterations <= 6 * Cardinality(CellsOf(grid)))
    /\ [][(pc = "searching" /\ pc' = "ran" /\ ~result'.stats.pathFound)
            => Frontier(local) = {}]_vars

\* a run in steps has returned without a path after visiting several cells
C22_Witness ==
    /\ pc = "ran"
    /\ ~result.stats.pathFound
    /\ ~EndReachable
    /\ Len(result.visitedNodes) >= 3

\* the cells of the line that divide draws across the chamber f
BisectingLine(f) ==
    IF f.horizontal
    THEN {<<(f.y1 + f.y2) \div 2, x>> : x \in f.x1..f.x2}
    ELSE {<<y, (f.x1 + f.x2) \div 2>> : y \in f.y1..f.y2}

\* C23: every bisecting line that divide places across a chamber consists of
\* wall cells along the chamber's whole span except exactly one cell, which
\* is left open as the gap.
C23_LineWithOneGap ==
    [][(/\ pc = "divide"
        /\ local.stack # <<>>
        /\ Head(local.stack).x2 - Head(local.stack).x1 >= 2
        /\ Head(local.stack).y2 - Head(local.stack).y1 >= 2)
       => Cardinality({n \in BisectingLine(Head(local.stack)) : ~At(newGrid', n).isWall}) = 1]_vars

\* the cells at even row and even column
Lattice(g) == {n \in CellsOf(g) : n[1] % 2 = 0 /\ n[2] % 2 = 0}

\* the top-right-most lattice cell
TopRight(g) == <<0, ((GridCols(g) - 1) \div 2) * 2>>

\* the cells between the lattice cell n and its north and east lattice neighbours
Passages(g, n) ==
    {p \in {<<n[1] - 1, n[2]>>, <<n[1], n[2] + 1>>} :
        p \in CellsOf(g) /\ <<2 * p[1] - n[1], 2 * p[2] - n[2]>> \in CellsOf(g)}

\* C24: in the grid generateMaze returns for type "binary" every lattice cell
\* is open; each lattice cell but the top-right-most one has an open passage
\* cell toward its north or east lattice neighbour, and only one carved;
\* every lattice cell is joined through open cells to the top-right lattice
\* cell; and no step indexes a cell outside the grid.
C24_BinaryTree ==
    /\ pc = "binary" =>
         /\ <<local.row, local.col>> \in CellsOf(newGrid)
         /\ \E neighbors \in {binaryNeighbors(local.row, local.col, GridCols(newGrid))} :
              \A c \in 1..Len(neighbors) :
                 /\ neighbors[c] \in CellsOf(newGrid)
                 /\ <<(local.row + neighbors[c][1]) \div 2, (local.col + neighbors[c][2]) \div 2>>
                      \in CellsOf(newGrid)
    /\ (pc = "generated" /\ mazeType = "binary") =>
         /\ \A n \in Lattice(grid) : ~At(grid, n).isWall
         /\ Passages(grid, TopRight(grid)) = {}
         /\ \A n \in Lattice(grid) \ {TopRight(grid)} :
              /\ \E p \in Passages(grid, n) : ~At(grid, p).isWall
              /\ Cardinality({p \in Passages(grid, n) :
                                ~At(grid, p).isWall /\ p \notin {startNode, endNode}}) <= 1
         /\ Lattice(grid) \subseteq ReachableFrom(grid, TopRight(grid))

\* a binary-tree maze on a grid of three rows whose cell (2,0) went north
C24_Witness ==
    /\ pc = "generated"
    /\ mazeType = "binary"
    /\ GridRows(grid) = 3
    /\ GridCols(grid) = 3
    /\ ~At(grid, <<1, 0>>).isWall
    /\ At(grid, <<2, 1>>).isWall

\* the columns first..last of row r are all open
OpenSpan(g, r, first, last) == \A c \in first..last : ~At(g, <<r, c>>).isWall

\* the even columns of the horizontal run of row r that the lattice column c is in
RunOf(g, r, c) ==
    {d \in 0..(GridCols(g) - 1) :
        d % 2 = 0 /\ OpenSpan(g, r, IF c < d THEN c ELSE d, IF c < d THEN d ELSE c)}

\* C25: in the grid generateMaze returns for type "sidewinder" the top
\* lattice row is one open run from column 0 to the last even column, and in
\* every lower lattice row each run has exactly one open cell directly north
\* of it, above one of the run's own lattice cells; while the maze is built
\* the run's first column is an even column not right of the current one.
\* Start and end cells are open without being carved: the lower rows are
\* judged on grids whose start and end cells, if any, are lattice cells.
C25_Sidewinder ==
    /\ pc = "sidewinder" =>
         /\ <<local.row, local.col>> \in CellsOf(newGrid)
         /\ local.runStart % 2 = 0
         /\ 0 <= local.runStart
         /\ local.runStart <= local.col
    /\ (pc = "generated" /\ mazeType = "sidewinder") =>
         /\ OpenSpan(grid, 0, 0, TopRight(grid)[2])
         /\ ({startNode, endNode} \subseteq Lattice(grid) \cup {NoNode}) =>
              \A n \in Lattice(grid) :
                 n[1] > 0 =>
                    \E run \in {RunOf(grid, n[1], n[2])} :
                       /\ Cardinality({d \in Min(run)..Max(run) :
                                         ~At(grid, <<n[1] - 1, d>>).isWall}) = 1
                       /\ \E d \in run : ~At(grid, <<n[1] - 1, d>>).isWall

\* a sidewinder maze whose lower lattice row has two runs
C25_Witness ==
    /\ pc = "generated"
    /\ mazeType = "sidewinder"
    /\ GridRows(grid) = 3
    /\ GridCols(grid) = 3
    /\ startNode = NoNode
    /\ endNode = NoNode
    /\ At(grid, <<2, 1>>).isWall
    /\ ~At(grid, <<1, 0>>).isWall
    /\ ~At(grid, <<1, 2>>).isWall

\* the drawing of a grid: what the user's clicks set
Drawing(g) ==
    [n \in CellsOf(g) |-> [isWall |-> At(g, n).isWall, isStart |-> At(g, n).isStart,
                           isEnd |-> At(g, n).isEnd, weight |-> At(g, n).weight]]

\* C26: while isRunning is true no step starts a second search or maze
\* generation and no click changes a cell's wall, start, end or weight: a
\* search in flight only goes on with its own iterations until it returns,
\* with the drawing and the start and end nodes as they are; a maze
\* generation in flight only goes on with its own type until it returns,
\* with start, end and weight of every cell as they are and every change of
\* a wall being the generator's; and isRunning is false after the step in
\* which the operation returns.
C26_Serialised ==
    [][isRunning =>
         /\ UNCHANGED <<startNode, endNode>>
         /\ CellsOf(grid') = CellsOf(grid)
         /\ pc = "searching" =>
              /\ UNCHANGED <<newGrid, mazeType>>
              /\ Drawing(grid') = Drawing(grid)
              /\ iterations' = iterations + 1
              /\ \/ /\ pc' = "searching"
                    /\ local'.algorithm = local.algorithm
                    /\ result' = NoResult
                 \/ /\ pc' = "ran"
                    /\ result'.algorithm = local.algorithm
                    /\ stats' = result'.stats
                    /\ ~isRunning'
         /\ pc # "searching" =>
              /\ result' = result
              /\ \A n \in CellsOf(grid) :
                   /\ At(grid', n).isStart = At(grid, n).isStart
                   /\ At(grid', n).isEnd = At(grid, n).isEnd
                   /\ At(grid', n).weight = At(grid, n).weight
              /\ \/ /\ pc # "return"
                    /\ isRunning'
                    /\ pc' # "searching"
                    /\ mazeType' = mazeType
                    /\ ~(pc' = FirstPc(mazeType) /\ local' = FirstLocal(mazeType, GridRows(grid), GridCols(grid)))
                    /\ \A n \in CellsOf(grid) :
                         At(grid', n).isWall # At(grid, n).isWall
                           => At(grid', n).isWall = At(newGrid', n).isWall
                 \/ /\ pc = "return"
                    /\ ~isRunning'
                    /\ grid' = newGrid
    ]_vars

\* a search is in flight, on walls that a maze generation left, after a
\* search and a maze generation that returned
C26_Witness ==
    /\ pc = "searching"
    /\ iterations >= 2
    /\ Cardinality({n \in CellsOf(grid) : At(grid, n).isWall}) >= 2

\* C27: every entry of the stats history holds the statistics of one search
\* run together with the algorithm that produced them: every step that saves
\* an entry saves the statistics shown with the algorithm of the run they
\* come from, whatever the select shows by then, and leaves the entries of
\* the other algorithms as they are.
C27_EntryOfProducer ==
    [][previousStats' # previousStats /\ previousStats' # <<>> =>
         LET saved == previousStats'[Len(previousStats')]
         IN /\ saved.stats = result.stats
            /\ saved.algorithm = result.algorithm
            /\ SubSeq(previousStats', 1, Len(previousStats') - 1)
                 = SelectSeq(previousStats, LAMBDA entry : entry.algorithm # saved.algorithm)
    ]_vars

\* C28: when a run of any algorithm returns, visitedNodes holds no cell twice
\* and no wall cell, and stats.nodesVisited is the number of cells whose
\* isVisited flag is true.
C28_VisitedNodes ==
    pc = "ran" =>
        /\ NoRepeats(result.visitedNodes)
        /\ \A i \in 1..Len(result.visitedNodes) : ~At(grid, result.visitedNodes[i]).isWall
        /\ result.stats.nodesVisited = Cardinality({n \in CellsOf(grid) : At(grid, n).isVisited})

\* a bidirectional run around a wall in which the end side dequeued a cell
\* that the start side had discovered
C28_Witness ==
    /\ Ran("bidirectional")
    /\ result.stats.pathFound
    /\ result.stats.nodesVisited >= 5
    /\ \E n \in CellsOf(grid) : At(grid, n).isWall

\* what a search has no business with: the drawing and the coordinates
Structure(g) ==
    [n \in CellsOf(g) |-> [drawing |-> Drawing(g)[n], row |-> At(g, n).row, col |-> At(g, n).col]]

\* C29: a run of any algorithm leaves isWall, isStart, isEnd, weight, row and
\* col of every cell as they were.
C29_StructureUntouched ==
    [][pc' = "ran" =>
         /\ CellsOf(grid') = CellsOf(grid)
         /\ Structure(grid') = Structure(grid)
         /\ \A n \in CellsOf(grid') : At(grid', n).row = n[1] /\ At(grid', n).col = n[2]
    ]_vars

\* a run has returned on a grid with a heavy cell, which it put on the path
C29_Witness ==
    /\ pc = "ran"
    /\ result.stats.pathFound
    /\ \E n \in CellsOf(grid) : At(grid, n).weight = HeavyWeight /\ At(grid, n).isPath

\* the fields generateMaze carries over from the input cell
Carried(g) ==
    [n \in CellsOf(g) |-> [row |-> At(g, n).row, col |-> At(g, n).col, isStart |-> At(g, n).isStart,
                           isEnd |-> At(g, n).isEnd, weight |-> At(g, n).weight]]

\* no cell of g has a search mark
Unmarked(g) ==
    \A n \in CellsOf(g) :
        /\ ~At(g, n).isVisited
        /\ ~At(g, n).isPath
        /\ At(g, n).distance = POSITIVE_INFINITY
        /\ At(g, n).previousNode = NoNode

\* a generation is in flight or has just returned
Generating == pc \notin {"idle", "generated"}

\* C30: generateMaze works on a copy.  Called without the callback it leaves
\* `grid`, its input, as it is until the caller stores the returned grid; in
\* every call every cell of the working grid, and of the returned grid,
\* carries row, col, isStart, isEnd and weight of the input cell and has no
\* search mark; and the walls the generator starts from are set by the maze
\* type and the start and end cells alone, whatever walls the input has.
C30_WorksOnCopy ==
    [][/\ (Generating' /\ ~hasOnUpdate') => grid' = grid
       /\ Generating' =>
            /\ CellsOf(newGrid') = CellsOf(grid)
            /\ Carried(newGrid') = Carried(grid)
            /\ Unmarked(newGrid')
       /\ (pc = "return" /\ pc' = "generated") =>
            /\ grid' = newGrid
            /\ Carried(grid') = Carried(grid)
            /\ Unmarked(grid')
       /\ (pc = "idle" /\ Generating') =>
            \A n \in CellsOf(grid) :
                At(newGrid', n).isWall
                  = (mazeType' # "random" /\ ~At(grid, n).isStart /\ ~At(grid, n).isEnd)
    ]_vars

\* a maze returned for an input that a search had marked: it has the heavy
\* cell of the input and an open cell that is neither start nor end
C30_Witness ==
    /\ pc = "generated"
    /\ stats # NoStats
    /\ \E n \in CellsOf(grid) : At(grid, n).weight = HeavyWeight
    /\ \E n \in CellsOf(grid) : ~At(grid, n).isWall /\ ~At(grid, n).isStart /\ ~At(grid, n).isEnd

====
